---- MODULE Spec2Model ----
(***************************************************************************)
(* Model of the zapa message pipeline: the Redis-backed priority queue     *)
(* (MessageQueueService), the worker that consumes it                      *)
(* (MessageProcessorService / IntegrationOrchestrator._run_processor_worker)*)
(* and the orchestrator life cycle (IntegrationOrchestrator).              *)
(*                                                                         *)
(* A Redis list is a sequence whose index 1 is the LEFT end (LPUSH side)   *)
(* and whose last index is the RIGHT end (RPOP side).  Every `await` of a  *)
(* store command, of the agent call or of a sleep is one step of a worker, *)
(* so all interleavings of store commands between workers are explored.    *)
(* Key expiry (the 24h TTL that enqueue refreshes) needs a real-time clock *)
(* and is outside the model; store commands are taken not to fail.         *)
(***************************************************************************)
EXTENDS Integers, Sequences, FiniteSets, TLC

\* ---------------------------------------------------------------- bounds
MaxMsgs == 2
NumWorkers == 2
NumCallers == 2
MaxRetriesArg == 3
MaxConfigs == 2
MaxAgentCalls == 2
MaxEvents == 2
SeqMaxMsgs == 3
MaxRaises == 3
ApiMaxRaises == 6
MaxLeaked == 3
MaxHealthCalls == 2
MaxStored == 3

\* ------------------------------------------------------ program constants
message_queue_max_retries == 3
message_queue_retry_delay == 60
_worker_count == 3
handler_max_retries == 3
handler_delay == 1
handler_backoff == 2

HIGH == "high"
NORMAL == "normal"
LOW == "low"
MessagePriority == {HIGH, NORMAL, LOW}

_get_processing_key == "processing"
_get_failed_key == "failed"
_get_queue_key(priority) == priority

Keys == MessagePriority \cup {_get_processing_key, _get_failed_key}

DefaultPrioritiesMutant == <<LOW, NORMAL, HIGH>>

\* the default priority list of dequeue
DefaultPriorities == <<HIGH, NORMAL, LOW>>

Workers == 1..NumWorkers
Callers == 1..NumCallers
NoResult == [shutdown |-> "none", initialize |-> "none"]
MsgIds == 1..(IF MaxMsgs > SeqMaxMsgs THEN MaxMsgs ELSE SeqMaxMsgs)

\* the absent message (Python None)
NoMsg == [id |-> 0]

\* QueuedMessage as built by enqueue: last_attempt_at is the number of the
\* clock reading stamped on the record (0 is None), error is None or str(e)
QueuedMessage(id, priority) ==
    [id |-> id, priority |-> priority, retry_count |-> 0,
     max_retries |-> message_queue_max_retries,
     last_attempt_at |-> 0, error |-> "none"]

\* --------------------------------------------------------- store commands
LPushMutant(list, v) == list \o <<v>>

\* LPUSH key value: the value becomes the left end
LPush(list, v) == <<v>> \o list

LRem1Mutant(list, v) == list

RECURSIVE LRem1(_, _)
\* LREM key 1 value: removes the first occurrence counted from the left
LRem1(list, v) ==
    IF list = <<>> THEN <<>>
    ELSE IF Head(list) = v THEN Tail(list)
    ELSE <<Head(list)>> \o LRem1(Tail(list), v)

RPopLPushMutant(st, src, dst) ==
    IF st[src] = <<>> THEN [store |-> st, data |-> NoMsg]
    ELSE [store |-> [st EXCEPT ![dst] = LPush(st[dst], st[src][Len(st[src])])],
          data |-> st[src][Len(st[src])]]

\* RPOPLPUSH src dst: atomically moves the right end of src to the left of dst
RPopLPush(st, src, dst) ==
    IF st[src] = <<>> THEN [store |-> st, data |-> NoMsg]
    ELSE LET v == st[src][Len(st[src])]
         IN [store |-> [st EXCEPT ![src] = SubSeq(st[src], 1, Len(st[src]) - 1),
                                  ![dst] = LPush(st[dst], v)],
             data |-> v]

FindByIdMutant(list, id) == IF list = <<>> THEN NoMsg ELSE Head(list)

RECURSIVE FindById(_, _)
\* the scan of acknowledge and retry: first msg_data whose id matches
FindById(list, id) ==
    IF list = <<>> THEN NoMsg
    ELSE IF Head(list).id = id THEN Head(list)
    ELSE FindById(Tail(list), id)

\* ------------------------------------------- the operations, run to the end
\* retry re-queues on the LOW lane
RetryQueueKeyMutant(m) == _get_queue_key(m.priority)

RetryQueueKey(m) == _get_queue_key(LOW)

RetryExhaustedMutant(m) == m.retry_count > m.max_retries

\* if message.retry_count >= message.max_retries
RetryExhausted(m) == m.retry_count >= m.max_retries

BackoffDelayMutant(m) == message_queue_retry_delay * (2 ^ m.retry_count)

\* delay = message_queue_retry_delay * (2 ** (retry_count - 1))
BackoffDelay(m) == message_queue_retry_delay * (2 ^ (m.retry_count - 1))

\* message.last_attempt_at = datetime.now(timezone.utc)
Stamp(m) == [m EXCEPT !.last_attempt_at = @ + 1]

\* the three assignments at the top of retry
RetryMark(m) == Stamp([m EXCEPT !.retry_count = @ + 1, !.error = "err"])

RECURSIVE dequeueFrom(_, _, _)
dequeueFrom(st, priorities, i) ==
    IF i > Len(priorities) THEN [store |-> st, message |-> NoMsg, lane |-> "none"]
    ELSE LET r == RPopLPush(st, _get_queue_key(priorities[i]), _get_processing_key)
         IN IF r.data # NoMsg
            THEN [store |-> [r.store EXCEPT ![_get_processing_key] =
                                LPush(LRem1(@, r.data), Stamp(r.data))],
                  message |-> Stamp(r.data),
                  lane |-> priorities[i]]
            ELSE dequeueFrom(st, priorities, i + 1)

dequeue(st) == dequeueFrom(st, DefaultPriorities, 1)

acknowledgeMutant(st, message_id) ==
    LET hit == FindById(st[_get_processing_key], message_id)
    IN [store |-> [st EXCEPT ![_get_processing_key] = LRem1(@, hit)],
        result |-> TRUE]

acknowledge(st, message_id) ==
    LET hit == FindById(st[_get_processing_key], message_id)
    IN IF hit # NoMsg
       THEN [store |-> [st EXCEPT ![_get_processing_key] = LRem1(@, hit)],
             result |-> TRUE]
       ELSE [store |-> st, result |-> FALSE]

\* message is the caller's object before the call; delay is the sleep made
retry(st, message) ==
    LET m == RetryMark(message)
        hit == FindById(st[_get_processing_key], m.id)
        st1 == IF hit # NoMsg
               THEN [st EXCEPT ![_get_processing_key] = LRem1(@, hit)]
               ELSE st
    IN IF RetryExhausted(m)
       THEN [store |-> [st1 EXCEPT ![_get_failed_key] = LPush(@, m)],
             result |-> FALSE, delay |-> 0, message |-> m]
       ELSE [store |-> [st1 EXCEPT ![RetryQueueKey(m)] = LPush(@, m)],
             result |-> TRUE, delay |-> BackoffDelay(m), message |-> m]

IdsOn(list) == {list[i].id : i \in 1..Len(list)}

\* ------------------------------------------------ application records
\* no webhook request is being served
NoEvent == [from_number |-> "none", to_number |-> "none", text |-> "none",
            media_url |-> "none", fault |-> "none"]
NoSignature == [kind |-> "missing", key |-> "none", body |-> "none"]
\* the four monitored components
Components == {"database", "redis", "whatsapp_bridge", "message_queue"}
\* no check has run (_last_status = {}), every component in order
NoHealth == [_last_status |-> {},
             now |-> [c \in Components |->
                         [state |-> "ok", failed |-> 0, total |-> 0]],
             answer |-> [calls |-> 0, healthy |-> FALSE, components |-> {}]]
\* no requeue_failed / clear_failed call in progress
NoAdmin == [pc |-> "idle", messages |-> <<>>, count |-> 0, cleared |-> {}]
NoRequest == [pc |-> "idle", served |-> 0, http |-> 0, status |-> "none",
              processing |-> "none", message_id |-> 0, first |-> 0,
              event |-> NoEvent, agent_service |-> "none",
              WEBHOOK_SECRET |-> "none", signature |-> NoSignature]

\* no with_retry call is in progress
NoRetry == [state |-> "idle", max_retries |-> 0, delay |-> 0, backoff |-> 0,
            attempt |-> 0, calls |-> 0, slept |-> <<>>, outcomes |-> <<>>,
            last_exception |-> "none", exception |-> "none", value |-> "none"]

\* process_message has not been called
NoAgentCall == [called |-> 0, user_id |-> "none", fault |-> "none",
                success |-> FALSE, content |-> "none",
                error_message |-> <<>>, raised |-> FALSE,
                adapter_built |-> FALSE, adapter_run |-> FALSE]

VARIABLES
    store,      \* Redis: key -> list of serialized QueuedMessage
    nextId,     \* the clock part of the next message id
    raises,     \* how many times processing has raised so far (capped by MaxRaises)
    pc,         \* per worker task: the await it is suspended at
    idx,        \* per worker: position of dequeue's loop over priorities
    msgData,    \* per worker: message_data returned by rpoplpush / found by a scan
    msg,        \* per worker: the QueuedMessage object in flight
    ret,        \* per worker: last value returned by retry
    outcomes,   \* history, per id: results of the agent calls ("ok" / "raise")
    sleeps,     \* history, per id: the delays retry slept
    deqCount,   \* history, per id: how many dequeue calls returned it
    acked,      \* history: ids for which acknowledge returned true
    pending,    \* history: ids returned by dequeue, acknowledge/retry not yet called
    held,       \* one-caller runs: the messages dequeue returned and the caller
                \* still holds, in call order, as [message, lane, enq]: lane is
                \* where it came from, enq the number of enqueues made before
    lastCall,   \* one-caller runs: the queue operation called last
    lastRet,    \* one-caller runs: what that call returned
    pushed,     \* one-caller runs, per lane: ids in the order they were pushed
    admin,      \* the requeue_failed / clear_failed call: the await it is at,
                \* the messages it read, its count, and the ids cleared so far
    initialized,        \* IntegrationOrchestrator._initialized
    processor_workers,  \* _processor_workers: the state of each task in the list
    leaked_workers,     \* live worker tasks no longer referenced by the list
    monitor_running,    \* IntegrationMonitor._running
    monitoring_task,    \* the task _monitoring_task refers to: none/running/done
    leaked_monitors,    \* live monitor loops no longer referenced
    is_connected,       \* MessageQueueService._is_connected
    opc,                \* per admin request: the await it is suspended at
    op,                 \* per admin request: the orchestrator method called
    joined,             \* per admin request: how many tasks its gather waits for
    result,             \* per admin request: the statuses returned
    messages,           \* database: the stored Message rows, oldest first
    users,              \* database: phone numbers of the User rows
    configs,            \* database: the LLMConfig rows, by id
    hook,               \* the webhook request being served and its answer
    rh,                 \* RetryHandler.with_retry: the call in progress
    agent,              \* the last AgentService.process_message call
    sessions,           \* database: the Session rows, by id
    stored,             \* database: Message rows as store_message wrote them,
                        \* each with the direction its response reported
    health              \* IntegrationMonitor._last_status, the components as
                        \* they are now, and the last get_system_health answer

locals == <<idx, msgData, msg, ret>>
history == <<outcomes, sleeps, deqCount, acked, pending>>
workerVars == <<pc, locals, history>>
callerVars == <<held, lastCall, lastRet, pushed, admin>>

orchVars == <<initialized, processor_workers, leaked_workers, monitor_running,
              monitoring_task, leaked_monitors, is_connected, opc, op, joined,
              result>>

dbVars == <<sessions, stored, health>>
appVars == <<messages, users, configs, hook, rh, agent, dbVars>>

vars == <<store, nextId, raises, workerVars, callerVars, orchVars, appVars>>

Init ==
    /\ store = [k \in Keys |-> <<>>]
    /\ nextId = 1
    /\ raises = 0
    /\ pc = [w \in Workers |-> "dequeue"]
    /\ idx = [w \in Workers |-> 1]
    /\ msgData = [w \in Workers |-> NoMsg]
    /\ msg = [w \in Workers |-> NoMsg]
    /\ ret = [w \in Workers |-> TRUE]
    /\ outcomes = [i \in MsgIds |-> <<>>]
    /\ sleeps = [i \in MsgIds |-> <<>>]
    /\ deqCount = [i \in MsgIds |-> 0]
    /\ acked = {}
    /\ pending = {}
    /\ held = <<>>
    /\ lastCall = "none"
    /\ lastRet = NoMsg
    /\ pushed = [p \in MessagePriority |-> <<>>]
    /\ admin = NoAdmin
    /\ initialized = FALSE
    /\ processor_workers = <<>>
    /\ leaked_workers = 0
    /\ monitor_running = FALSE
    /\ monitoring_task = "none"
    /\ leaked_monitors = 0
    /\ is_connected = FALSE
    /\ opc = [c \in Callers |-> "idle"]
    /\ op = [c \in Callers |-> "none"]
    /\ joined = [c \in Callers |-> 0]
    /\ result = [c \in Callers |-> NoResult]
    /\ messages = <<>>
    /\ users = {}
    /\ configs = <<>>
    /\ hook = NoRequest
    /\ rh = NoRetry
    /\ agent = NoAgentCall
    /\ sessions = <<>>
    /\ stored = <<>>
    /\ health = NoHealth

\* ------------------------------------------------------------- enqueue
Enqueue(priority) ==
    /\ nextId <= MaxMsgs
    /\ store' = [store EXCEPT ![_get_queue_key(priority)] =
                    LPush(@, QueuedMessage(nextId, priority))]
    /\ nextId' = nextId + 1
    /\ UNCHANGED <<raises, workerVars, callerVars, orchVars, appVars>>

\* -------------------------------------------------------------- dequeue
\* one pass of `for priority in priorities`: the rpoplpush on that lane
DequeueRpoplpush(w) ==
    /\ pc[w] = "dequeue"
    /\ LET lane == _get_queue_key(DefaultPriorities[idx[w]])
           r == RPopLPush(store, lane, _get_processing_key)
       IN IF r.data # NoMsg
          THEN /\ store' = r.store
               /\ msgData' = [msgData EXCEPT ![w] = r.data]
               /\ msg' = [msg EXCEPT ![w] = Stamp(r.data)]
               /\ pc' = [pc EXCEPT ![w] = "dequeue_lrem"]
               /\ UNCHANGED idx
          ELSE /\ IF idx[w] < Len(DefaultPriorities)
                  THEN /\ idx' = [idx EXCEPT ![w] = @ + 1]
                       /\ UNCHANGED pc
                  ELSE /\ idx' = [idx EXCEPT ![w] = 1]
                       /\ pc' = [pc EXCEPT ![w] = "idle_sleep"]
               /\ UNCHANGED <<store, msgData, msg>>
    /\ UNCHANGED <<nextId, raises, ret, outcomes, sleeps, deqCount, acked, pending, callerVars, orchVars, appVars>>

\* r.lrem(processing_key, 1, message_data)
DequeueLrem(w) ==
    /\ pc[w] = "dequeue_lrem"
    /\ store' = [store EXCEPT ![_get_processing_key] = LRem1(@, msgData[w])]
    /\ pc' = [pc EXCEPT ![w] = "dequeue_lpush"]
    /\ UNCHANGED <<nextId, raises, locals, history, callerVars, orchVars, appVars>>

\* r.lpush(processing_key, message.model_dump_json()); return message
DequeueLpush(w) ==
    /\ pc[w] = "dequeue_lpush"
    /\ store' = [store EXCEPT ![_get_processing_key] = LPush(@, msg[w])]
    /\ msgData' = [msgData EXCEPT ![w] = NoMsg]
    /\ idx' = [idx EXCEPT ![w] = 1]
    /\ deqCount' = [deqCount EXCEPT ![msg[w].id] = @ + 1]
    /\ pending' = pending \cup {msg[w].id}
    /\ pc' = [pc EXCEPT ![w] = "agent"]
    /\ UNCHANGED <<nextId, raises, msg, ret, outcomes, sleeps, acked, callerVars, orchVars, appVars>>

\* the worker's idle sleep(1) after process_single found nothing
IdleSleep(w) ==
    /\ pc[w] = "idle_sleep"
    /\ pc' = [pc EXCEPT ![w] = "dequeue"]
    /\ UNCHANGED <<store, nextId, raises, locals, history, callerVars, orchVars, appVars>>

\* ------------------------------------------------------ _process_message
\* agent_service.process_message completed normally: acknowledge is called
AgentReturns(w) ==
    /\ pc[w] = "agent"
    /\ outcomes' = [outcomes EXCEPT ![msg[w].id] = Append(@, "ok")]
    /\ pending' = pending \ {msg[w].id}
    /\ pc' = [pc EXCEPT ![w] = "acknowledge_lrange"]
    /\ UNCHANGED <<store, nextId, raises, locals, sleeps, deqCount, acked, callerVars, orchVars, appVars>>

\* the try block raised: retry(queued_message, str(e)) is called and runs
\* up to its first store command
AgentRaises(w) ==
    /\ pc[w] = "agent"
    /\ raises < MaxRaises
    /\ raises' = raises + 1
    /\ outcomes' = [outcomes EXCEPT ![msg[w].id] = Append(@, "raise")]
    /\ pending' = pending \ {msg[w].id}
    /\ msg' = [msg EXCEPT ![w] = RetryMark(@)]
    /\ pc' = [pc EXCEPT ![w] = "retry_lrange"]
    /\ UNCHANGED <<store, nextId, idx, msgData, ret, sleeps, deqCount, acked, callerVars, orchVars, appVars>>

\* ---------------------------------------------------------- acknowledge
AcknowledgeLrange(w) ==
    /\ pc[w] = "acknowledge_lrange"
    /\ LET hit == FindById(store[_get_processing_key], msg[w].id)
       IN IF hit # NoMsg
          THEN /\ msgData' = [msgData EXCEPT ![w] = hit]
               /\ pc' = [pc EXCEPT ![w] = "acknowledge_lrem"]
               /\ UNCHANGED msg
          ELSE /\ msg' = [msg EXCEPT ![w] = NoMsg]
               /\ pc' = [pc EXCEPT ![w] = "dequeue"]
               /\ UNCHANGED msgData
    /\ UNCHANGED <<store, nextId, raises, idx, ret, history, callerVars, orchVars, appVars>>

AcknowledgeLrem(w) ==
    /\ pc[w] = "acknowledge_lrem"
    /\ store' = [store EXCEPT ![_get_processing_key] = LRem1(@, msgData[w])]
    /\ acked' = acked \cup {msg[w].id}
    /\ msgData' = [msgData EXCEPT ![w] = NoMsg]
    /\ msg' = [msg EXCEPT ![w] = NoMsg]
    /\ pc' = [pc EXCEPT ![w] = "dequeue"]
    /\ UNCHANGED <<nextId, raises, idx, ret, outcomes, sleeps, deqCount, pending, callerVars, orchVars, appVars>>

RetryBranchMutant(m) == "retry_sleep"

\* ---------------------------------------------------------------- retry
RetryBranch(m) == IF RetryExhausted(m) THEN "retry_failed_lpush" ELSE "retry_sleep"

RetryLrange(w) ==
    /\ pc[w] = "retry_lrange"
    /\ LET hit == FindById(store[_get_processing_key], msg[w].id)
       IN IF hit # NoMsg
          THEN /\ msgData' = [msgData EXCEPT ![w] = hit]
               /\ pc' = [pc EXCEPT ![w] = "retry_lrem"]
          ELSE /\ pc' = [pc EXCEPT ![w] = RetryBranch(msg[w])]
               /\ UNCHANGED msgData
    /\ UNCHANGED <<store, nextId, raises, idx, msg, ret, history, callerVars, orchVars, appVars>>

RetryLrem(w) ==
    /\ pc[w] = "retry_lrem"
    /\ store' = [store EXCEPT ![_get_processing_key] = LRem1(@, msgData[w])]
    /\ msgData' = [msgData EXCEPT ![w] = NoMsg]
    /\ pc' = [pc EXCEPT ![w] = RetryBranch(msg[w])]
    /\ UNCHANGED <<nextId, raises, idx, msg, ret, history, callerVars, orchVars, appVars>>

\* r.lpush(failed_key, ...); return False
RetryFailedLpush(w) ==
    /\ pc[w] = "retry_failed_lpush"
    /\ store' = [store EXCEPT ![_get_failed_key] = LPush(@, msg[w])]
    /\ ret' = [ret EXCEPT ![w] = FALSE]
    /\ msg' = [msg EXCEPT ![w] = NoMsg]
    /\ pc' = [pc EXCEPT ![w] = "dequeue"]
    /\ UNCHANGED <<nextId, raises, idx, msgData, history, callerVars, orchVars, appVars>>

\* await asyncio.sleep(delay)
RetrySleep(w) ==
    /\ pc[w] = "retry_sleep"
    /\ sleeps' = [sleeps EXCEPT ![msg[w].id] = Append(@, BackoffDelay(msg[w]))]
    /\ pc' = [pc EXCEPT ![w] = "retry_lpush"]
    /\ UNCHANGED <<store, nextId, raises, locals, outcomes, deqCount, acked, pending, callerVars, orchVars, appVars>>

\* r.lpush(queue_key(LOW), ...); return True
RetryLpush(w) ==
    /\ pc[w] = "retry_lpush"
    /\ store' = [store EXCEPT ![RetryQueueKey(msg[w])] = LPush(@, msg[w])]
    /\ ret' = [ret EXCEPT ![w] = TRUE]
    /\ msg' = [msg EXCEPT ![w] = NoMsg]
    /\ pc' = [pc EXCEPT ![w] = "dequeue"]
    /\ UNCHANGED <<nextId, raises, idx, msgData, outcomes, sleeps, deqCount, acked, pending, callerVars, orchVars, appVars>>

\* ------------------------------------------------------------- cancel
\* worker.cancel() of _cleanup: CancelledError is raised at the await the
\* task is suspended at; `except Exception` of _process_message does not
\* catch it and _run_processor_worker breaks out of its loop
Cancel(w) ==
    /\ pc[w] # "cancelled"
    /\ pc' = [pc EXCEPT ![w] = "cancelled"]
    /\ idx' = [idx EXCEPT ![w] = 1]
    /\ msgData' = [msgData EXCEPT ![w] = NoMsg]
    /\ msg' = [msg EXCEPT ![w] = NoMsg]
    /\ UNCHANGED <<store, nextId, raises, ret, history, callerVars, orchVars, appVars>>

WorkerStep(w) ==
    \/ DequeueRpoplpush(w)
    \/ DequeueLrem(w)
    \/ DequeueLpush(w)
    \/ IdleSleep(w)
    \/ AgentReturns(w)
    \/ AgentRaises(w)
    \/ AcknowledgeLrange(w)
    \/ AcknowledgeLrem(w)
    \/ RetryLrange(w)
    \/ RetryLrem(w)
    \/ RetryFailedLpush(w)
    \/ RetrySleep(w)
    \/ RetryLpush(w)

Next ==
    \/ \E p \in MessagePriority : Enqueue(p)
    \/ \E w \in Workers : WorkerStep(w)
    \/ \E w \in Workers : Cancel(w)

Spec == Init /\ [][Next]_vars

\* ------------------------------------------------- one caller, whole calls
\* The queue API called by a single caller, each call run to its end before
\* the next one starts (the unit tests' use of MessageQueueService).
RemoveAt(s, i) == SubSeq(s, 1, i - 1) \o SubSeq(s, i + 1, Len(s))

CallEnqueue(priority) ==
    /\ nextId <= SeqMaxMsgs
    /\ store' = [store EXCEPT ![_get_queue_key(priority)] =
                    LPush(@, QueuedMessage(nextId, priority))]
    /\ pushed' = [pushed EXCEPT ![priority] = Append(@, nextId)]
    /\ nextId' = nextId + 1
    /\ lastCall' = "enqueue"
    /\ lastRet' = QueuedMessage(nextId, priority)
    /\ UNCHANGED <<raises, workerVars, held, admin, orchVars, appVars>>

CallDequeue ==
    /\ LET r == dequeue(store)
       IN /\ store' = r.store
          /\ lastRet' = r.message
          /\ IF r.message # NoMsg
             THEN held' = Append(held, [message |-> r.message, lane |-> r.lane,
                                        enq |-> nextId - 1])
             ELSE UNCHANGED held
    /\ lastCall' = "dequeue"
    /\ UNCHANGED <<nextId, raises, workerVars, pushed, admin, orchVars, appVars>>

\* the caller acknowledges a message it holds
CallAcknowledge(i) ==
    /\ LET r == acknowledge(store, held[i].message.id)
       IN /\ store' = r.store
          /\ lastRet' = [id |-> held[i].message.id, result |-> r.result]
    /\ held' = RemoveAt(held, i)
    /\ lastCall' = "acknowledge"
    /\ UNCHANGED <<nextId, raises, workerVars, pushed, admin, orchVars, appVars>>

\* the caller hands a message it holds to retry
CallRetry(i) ==
    /\ raises < MaxRaises
    /\ raises' = raises + 1
    /\ LET r == retry(store, held[i].message)
       IN /\ store' = r.store
          /\ lastRet' = [id |-> r.message.id, result |-> r.result, delay |-> r.delay]
          /\ pushed' = IF r.result
                       THEN [pushed EXCEPT ![LOW] = Append(@, r.message.id)]
                       ELSE pushed
    /\ held' = RemoveAt(held, i)
    /\ lastCall' = "retry"
    /\ UNCHANGED <<nextId, workerVars, admin, orchVars, appVars>>

SeqNext ==
    \/ \E p \in MessagePriority : CallEnqueue(p)
    \/ CallDequeue
    \/ \E i \in 1..Len(held) : CallAcknowledge(i)
    \/ \E i \in 1..Len(held) : CallRetry(i)

SeqSpec == Init /\ [][SeqNext]_vars

\* workers that are never cancelled and always get to run
LiveNext ==
    \/ \E p \in MessagePriority : Enqueue(p)
    \/ \E w \in Workers : WorkerStep(w)

LiveSpec == Init /\ [][LiveNext]_vars /\ \A w \in Workers : WF_vars(WorkerStep(w))

\* ------------------------------------------------------------ properties
InList(k, id) == id \in IdsOn(store[k])
OnAnyLane(id) == \E p \in MessagePriority : InList(p, id)
Enqueued == 1..(nextId - 1)
Raises(id) == Cardinality({i \in 1..Len(outcomes[id]) : outcomes[id][i] = "raise"})
InRetry(w) ==
    pc[w] \in {"retry_lrange", "retry_lrem", "retry_failed_lpush",
               "retry_sleep", "retry_lpush"}
InFlight(w) ==
    pc[w] \in {"agent", "acknowledge_lrange", "acknowledge_lrem"} \/ InRetry(w)
\* the retry call of worker w returns in this step
RetryReturns(w) == InRetry(w) /\ pc'[w] = "dequeue"

\* C1: a record returned by dequeue for which neither acknowledge nor retry
\* has been called is in `processing`, and every enqueued record is
\* eventually returned by some dequeue when the workers keep calling dequeue.
PendingInProcessing == \A id \in pending : InList(_get_processing_key, id)
C2_OneHolder ==
    \A w1, w2 \in Workers :
        (w1 # w2 /\ msg[w1] # NoMsg) => msg[w1].id # msg[w2].id
C2_Witness ==
    \E w1, w2 \in Workers :
        /\ w1 # w2
        /\ pc[w1] = "agent" /\ pc[w2] = "agent"
        /\ msg[w1].id # msg[w2].id

\* C3: a worker cancelled while it has an in-flight record leaves that
\* record in `processing`.
C3_CancelKeepsProcessing ==
    [][\A w \in Workers :
          (InFlight(w) /\ pc'[w] = "cancelled")
              => msg[w].id \in IdsOn(store'[_get_processing_key])]_vars

\* C4: a retry whose incremented retry_count has reached max_retries moves
\* the record from `processing` to `failed`, returns false and does not
\* sleep; a record in `failed` has failed max_retries times and is on no lane.
FailedAfterMaxRetries ==
    \A id \in IdsOn(store[_get_failed_key]) :
        /\ Raises(id) = message_queue_max_retries
        /\ ~OnAnyLane(id)
        /\ ~InList(_get_processing_key, id)
C4_RetryExhausted ==
    /\ []FailedAfterMaxRetries
    /\ [][\A w \in Workers :
            (RetryReturns(w) /\ msg[w].retry_count >= msg[w].max_retries)
               => /\ ret'[w] = FALSE
                  /\ store'[_get_failed_key] = <<msg[w]>> \o store[_get_failed_key]
                  /\ msg[w].id \notin IdsOn(store'[_get_processing_key])
                  /\ \A p \in MessagePriority : store'[p] = store[p]
                  /\ Len(sleeps'[msg[w].id]) = msg[w].retry_count - 1]_vars
C4_Witness ==
    \E id \in Enqueued :
        /\ InList(_get_failed_key, id)
        /\ \E w \in Workers : pc[w] = "dequeue" /\ ret[w] = FALSE

\* C5: a retry whose incremented retry_count is below max_retries has added
\* exactly 1 per failed attempt, recorded the error, removed the record from
\* `processing`, slept, and pushed the record on the LOW lane returning true;
\* retry never puts a record on high or normal.
OnlyFreshOnHighNormal ==
    \A p \in {HIGH, NORMAL} : \A i \in 1..Len(store[p]) :
        store[p][i].retry_count = 0 /\ store[p][i].priority = p
C5_RetryRequeuesLow ==
    /\ []OnlyFreshOnHighNormal
    /\ [][\A w \in Workers :
            (RetryReturns(w) /\ msg[w].retry_count < msg[w].max_retries)
               => /\ ret'[w] = TRUE
                  /\ msg[w].retry_count = Raises(msg[w].id)
                  /\ msg[w].error = "err"
                  /\ store'[LOW] = <<msg[w]>> \o store[LOW]
                  /\ store'[HIGH] = store[HIGH]
                  /\ store'[NORMAL] = store[NORMAL]
                  /\ store'[_get_failed_key] = store[_get_failed_key]
                  /\ msg[w].id \notin IdsOn(store'[_get_processing_key])
                  /\ Len(sleeps[msg[w].id]) = msg[w].retry_count]_vars
C5_Witness ==
    \E i \in 1..Len(store[LOW]) :
        /\ store[LOW][i].priority = HIGH
        /\ store[LOW][i].retry_count = 2
        /\ store[LOW][i].error = "err"

\* C6: the i-th retry of a record sleeps base_delay * 2^(i-1): the delays
\* slept for one record are base_delay, then 2 * base_delay, and no more.
C6_BackoffDelays ==
    \A id \in MsgIds :
        /\ Len(sleeps[id]) <= message_queue_max_retries - 1
        /\ \A i \in 1..Len(sleeps[id]) :
              sleeps[id][i] = message_queue_retry_delay * (2 ^ (i - 1))
        /\ \A w \in Workers :
              (msg[w].id = id /\ pc[w] = "retry_lpush")
                 => Len(sleeps[id]) = msg[w].retry_count
C6_Witness ==
    \E id \in Enqueued :
        sleeps[id] = <<message_queue_retry_delay, 2 * message_queue_retry_delay>>

\* C9: the worker invokes the agent once per dequeued record; a record whose
\* agent call raised twice and then returned has been invoked three times,
\* slept base then 2*base, is acknowledged and is in no list, and when it is
\* the only record `processing` and `failed` are empty.
C9_WorkerTurn ==
    \A id \in MsgIds :
        /\ Len(outcomes[id]) + (IF id \in pending THEN 1 ELSE 0) = deqCount[id]
        /\ (id \in acked) =>
              /\ outcomes[id][Len(outcomes[id])] = "ok"
              /\ Raises(id) = Len(outcomes[id]) - 1
              /\ \A k \in Keys : ~InList(k, id)
        /\ (outcomes[id] = <<"raise", "raise", "ok">> /\ id \in acked) =>
              /\ deqCount[id] = 3
              /\ sleeps[id] = <<message_queue_retry_delay,
                                2 * message_queue_retry_delay>>
              /\ (nextId = 2 =>
                     /\ store[_get_processing_key] = <<>>
                     /\ store[_get_failed_key] = <<>>)
C9_Witness ==
    /\ nextId = 2
    /\ outcomes[1] = <<"raise", "raise", "ok">>
    /\ 1 \in acked

\* C7: dequeue returns the record at the right end of the high lane when
\* high is non-empty, otherwise of normal, otherwise of low, and null only
\* when all three are empty; so of two records held by the caller the one
\* taken from a lower lane first was taken before the other was enqueued, and
\* after enqueues H, L, H three dequeues return the records 1, 3, 2.
Rank(lane) == IF lane = HIGH THEN 1 ELSE IF lane = NORMAL THEN 2 ELSE 3
FirstNonEmpty ==
    IF store[HIGH] # <<>> THEN HIGH
    ELSE IF store[NORMAL] # <<>> THEN NORMAL
    ELSE IF store[LOW] # <<>> THEN LOW
    ELSE "none"
HeldIds == [i \in 1..Len(held) |-> held[i].message.id]
HigherLaneFirst ==
    \A i, j \in 1..Len(held) :
        (i < j /\ Rank(held[j].lane) < Rank(held[i].lane))
            => held[j].message.id > held[i].enq
EnqueuedHLH ==
    /\ pushed = [p \in MessagePriority |->
                    IF p = HIGH THEN <<1, 3>> ELSE IF p = LOW THEN <<2>> ELSE <<>>]
    /\ Len(held) = 3
    /\ \A i \in 1..3 : held[i].enq = 3
C7_PriorityOrder ==
    /\ [](HigherLaneFirst /\ (EnqueuedHLH => HeldIds = <<1, 3, 2>>))
    /\ [][lastCall' = "dequeue" =>
            IF FirstNonEmpty = "none"
            THEN lastRet' = NoMsg /\ store' = store
            ELSE LET lane == store[FirstNonEmpty]
                 IN /\ lastRet'.id = lane[Len(lane)].id
                    /\ store'[FirstNonEmpty] = SubSeq(lane, 1, Len(lane) - 1)
                    /\ store'[_get_processing_key] =
                          <<lastRet'>> \o store[_get_processing_key]
                    /\ \A p \in MessagePriority \ {FirstNonEmpty} :
                          store'[p] = store[p]]_vars
C7_Witness == EnqueuedHLH /\ HeldIds = <<1, 3, 2>> /\ lastCall = "dequeue"

\* C8: within one lane the caller receives the records in the order they
\* were pushed: the k-th record dequeued from a lane is the k-th pushed on it.
LaneKeepsPushOrder ==
    \A p \in MessagePriority : \A i \in 1..Len(store[p]) :
        /\ Len(store[p]) <= Len(pushed[p])
        /\ store[p][i].id = pushed[p][Len(pushed[p]) - i + 1]
FirstDequeuesInEnqueueOrder ==
    \A i, j \in 1..Len(held) :
        (/\ i < j
         /\ held[i].lane = held[j].lane
         /\ held[i].message.retry_count = 0
         /\ held[j].message.retry_count = 0)
            => held[i].message.id < held[j].message.id
C8_LaneFifo ==
    /\ [](LaneKeepsPushOrder /\ FirstDequeuesInEnqueueOrder)
    /\ [][(lastCall' = "dequeue" /\ lastRet' # NoMsg) =>
            \E p \in MessagePriority :
                /\ Len(store'[p]) = Len(store[p]) - 1
                /\ lastRet'.id = pushed[p][Len(pushed[p]) - Len(store[p]) + 1]]_vars
C8_Witness ==
    /\ Len(held) = 2
    /\ held[1].lane = held[2].lane
    /\ held[1].enq >= 2
    /\ HeldIds = <<1, 2>>

\* ------------------------------------------------ IntegrationOrchestrator
\* An admin request c calls initialize, shutdown or reinitialize; every await
\* inside the call is one step.  bridge_config.setup_bridge,
\* ensure_system_session and check_all_components catch their own exceptions,
\* gather runs with return_exceptions=True, so the calls do not raise.
orchQueueVars == <<store, nextId, raises, workerVars, callerVars, appVars>>

SetAll(tasks, from, to) ==
    [i \in 1..Len(tasks) |-> IF tasks[i] = from THEN to ELSE tasks[i]]
Count(tasks, st) == Cardinality({i \in 1..Len(tasks) : tasks[i] = st})
Spawned(n) == [i \in 1..n |-> "running"]

AlreadyInitializedMutant == FALSE

\* if self._initialized: return {"status": "already_initialized"}
AlreadyInitialized == initialized

\* a request arrives
Request(c, method) ==
    /\ opc[c] = "idle"
    /\ op' = [op EXCEPT ![c] = method]
    /\ opc' = [opc EXCEPT ![c] = IF method = "initialize" THEN "initialize"
                                 ELSE "shutdown"]
    /\ result' = [result EXCEPT ![c] = NoResult]
    /\ UNCHANGED <<initialized, processor_workers, leaked_workers,
                   monitor_running, monitoring_task, leaked_monitors,
                   is_connected, joined, orchQueueVars>>

\* initialize up to `await bridge_config.setup_bridge()`
InitializeEnter(c) ==
    /\ opc[c] = "initialize"
    /\ IF AlreadyInitialized
       THEN /\ result' = [result EXCEPT ![c].initialize = "already_initialized"]
            /\ opc' = [opc EXCEPT ![c] = "idle"]
       ELSE /\ opc' = [opc EXCEPT ![c] = "setup_bridge"]
            /\ UNCHANGED result
    /\ UNCHANGED <<initialized, processor_workers, leaked_workers,
                   monitor_running, monitoring_task, leaked_monitors,
                   is_connected, op, joined, orchQueueVars>>

\* setup_bridge returned; `await bridge_config.ensure_system_session()`
InitializeBridgeDone(c) ==
    /\ opc[c] = "setup_bridge"
    /\ opc' = [opc EXCEPT ![c] = "ensure_system_session"]
    /\ UNCHANGED <<initialized, processor_workers, leaked_workers,
                   monitor_running, monitoring_task, leaked_monitors,
                   is_connected, op, joined, result, orchQueueVars>>

\* ensure_system_session returned: the workers are created and appended,
\* start_monitoring runs (it has no await of its own), and the call suspends
\* in `await integration_monitor.check_all_components()`
InitializeSpawn(c) ==
    /\ opc[c] = "ensure_system_session"
    /\ processor_workers' = processor_workers \o Spawned(_worker_count)
    /\ IF monitor_running
       THEN UNCHANGED <<monitor_running, monitoring_task, leaked_monitors>>
       ELSE /\ monitor_running' = TRUE
            /\ monitoring_task' = "running"
            /\ leaked_monitors' = leaked_monitors +
                                    (IF monitoring_task = "running" THEN 1 ELSE 0)
    /\ opc' = [opc EXCEPT ![c] = "check_all_components"]
    /\ UNCHANGED <<initialized, leaked_workers, is_connected, op, joined,
                   result, orchQueueVars>>

\* the health check returned (its queue check connected the queue store)
InitializeDone(c) ==
    /\ opc[c] = "check_all_components"
    /\ is_connected' = TRUE
    /\ initialized' = TRUE
    /\ result' = [result EXCEPT ![c].initialize = "initialized"]
    /\ opc' = [opc EXCEPT ![c] = "idle"]
    /\ UNCHANGED <<processor_workers, leaked_workers, monitor_running,
                   monitoring_task, leaked_monitors, op, joined, orchQueueVars>>

\* _cleanup from `for worker in ...: worker.cancel()` to its next await,
\* given the worker list and who calls
CancelWorkers(c) ==
    /\ processor_workers' =
          IF processor_workers = <<>> THEN <<>>
          ELSE SetAll(processor_workers, "running", "cancelling")
    /\ joined' = [joined EXCEPT ![c] = Len(processor_workers)]
    /\ opc' = [opc EXCEPT ![c] = IF processor_workers = <<>>
                                 THEN "close" ELSE "gather"]

ShutdownNotInitializedMutant == FALSE

\* if not self._initialized: return {"status": "not_initialized"}
ShutdownNotInitialized == ~initialized

\* shutdown up to the first await of _cleanup
ShutdownEnter(c) ==
    /\ opc[c] = "shutdown"
    /\ IF ShutdownNotInitialized
       THEN /\ result' = [result EXCEPT ![c].shutdown = "not_initialized"]
            /\ opc' = [opc EXCEPT ![c] = IF op[c] = "reinitialize"
                                         THEN "reinitialize_sleep" ELSE "idle"]
            /\ UNCHANGED <<monitor_running, processor_workers, joined>>
       ELSE /\ monitor_running' = FALSE
            /\ IF monitoring_task # "none"
               THEN /\ opc' = [opc EXCEPT ![c] = "stop_monitoring"]
                    /\ UNCHANGED <<processor_workers, joined>>
               ELSE CancelWorkers(c)
            /\ UNCHANGED result
    /\ UNCHANGED <<initialized, leaked_workers, monitoring_task,
                   leaked_monitors, is_connected, op, orchQueueVars>>

\* `await self._monitoring_task` returned: the loop has ended
StopMonitoringDone(c) ==
    /\ opc[c] = "stop_monitoring"
    /\ monitoring_task \in {"done", "none"}
    /\ monitoring_task' = "none"
    /\ CancelWorkers(c)
    /\ UNCHANGED <<initialized, leaked_workers, monitor_running,
                   leaked_monitors, is_connected, op, result, orchQueueVars>>

\* gather returned: every task it waited for is done; the list is cleared
GatherDone(c) ==
    /\ opc[c] = "gather"
    /\ \A i \in 1..joined[c] : i <= Len(processor_workers) =>
                                  processor_workers[i] = "done"
    /\ leaked_workers' = leaked_workers + Count(processor_workers, "running")
                                        + Count(processor_workers, "cancelling")
    /\ processor_workers' = <<>>
    /\ joined' = [joined EXCEPT ![c] = 0]
    /\ opc' = [opc EXCEPT ![c] = "close"]
    /\ UNCHANGED <<initialized, monitor_running, monitoring_task,
                   leaked_monitors, is_connected, op, result, orchQueueVars>>

\* message_queue.close() returned; shutdown sets _initialized = False
ShutdownDone(c) ==
    /\ opc[c] = "close"
    /\ is_connected' = FALSE
    /\ initialized' = FALSE
    /\ result' = [result EXCEPT ![c].shutdown = "shutdown_complete"]
    /\ opc' = [opc EXCEPT ![c] = IF op[c] = "reinitialize"
                                 THEN "reinitialize_sleep" ELSE "idle"]
    /\ UNCHANGED <<processor_workers, leaked_workers, monitor_running,
                   monitoring_task, leaked_monitors, op, joined, orchQueueVars>>

\* reinitialize: `await asyncio.sleep(2)` is over, initialize is called
ReinitializeSleepDone(c) ==
    /\ opc[c] = "reinitialize_sleep"
    /\ opc' = [opc EXCEPT ![c] = "initialize"]
    /\ UNCHANGED <<initialized, processor_workers, leaked_workers,
                   monitor_running, monitoring_task, leaked_monitors,
                   is_connected, op, joined, result, orchQueueVars>>

\* a cancelled worker task gets CancelledError at its await and ends
WorkerTaskExit(i) ==
    /\ i \in 1..Len(processor_workers)
    /\ processor_workers[i] = "cancelling"
    /\ processor_workers' = [processor_workers EXCEPT ![i] = "done"]
    /\ UNCHANGED <<initialized, leaked_workers, monitor_running,
                   monitoring_task, leaked_monitors, is_connected, opc, op,
                   joined, result, orchQueueVars>>

\* a running worker task polls the queue: _get_redis connects when needed
WorkerTaskRun(i) ==
    /\ i \in 1..Len(processor_workers)
    /\ processor_workers[i] = "running"
    /\ ~is_connected
    /\ is_connected' = TRUE
    /\ UNCHANGED <<initialized, processor_workers, leaked_workers,
                   monitor_running, monitoring_task, leaked_monitors, opc, op,
                   joined, result, orchQueueVars>>

\* _monitor_loop wakes up and finds _running false
MonitorLoopExit ==
    /\ monitoring_task = "running"
    /\ ~monitor_running
    /\ monitoring_task' = "done"
    /\ UNCHANGED <<initialized, processor_workers, leaked_workers,
                   monitor_running, leaked_monitors, is_connected, opc, op,
                   joined, result, orchQueueVars>>

\* _monitor_loop runs a health check: its queue check connects the store
MonitorLoopCheck ==
    /\ monitoring_task = "running"
    /\ monitor_running
    /\ ~is_connected
    /\ is_connected' = TRUE
    /\ UNCHANGED <<initialized, processor_workers, leaked_workers,
                   monitor_running, monitoring_task, leaked_monitors, opc, op,
                   joined, result, orchQueueVars>>

OrchStep(c) ==
    \/ InitializeEnter(c)
    \/ InitializeBridgeDone(c)
    \/ InitializeSpawn(c)
    \/ InitializeDone(c)
    \/ ShutdownEnter(c)
    \/ StopMonitoringDone(c)
    \/ GatherDone(c)
    \/ ShutdownDone(c)
    \/ ReinitializeSleepDone(c)

TaskStep ==
    \/ \E i \in 1..Len(processor_workers) : WorkerTaskExit(i)
    \/ \E i \in 1..Len(processor_workers) : WorkerTaskRun(i)
    \/ MonitorLoopExit
    \/ MonitorLoopCheck

NoCallInProgress == \A c \in Callers : opc[c] = "idle"

\* the admin requests arrive one after another
OrchNext ==
    \/ \E c \in Callers :
          \E method \in {"initialize", "shutdown", "reinitialize"} :
              NoCallInProgress /\ Request(c, method)
    \/ \E c \in Callers : OrchStep(c)
    \/ TaskStep

OrchSpec == Init /\ [][OrchNext]_vars

\* C10: initialize() on an initialized orchestrator returns
\* already_initialized and changes nothing: the worker list still holds the
\* N configured running tasks and there is still exactly one monitor task.
C10_InitializeIdempotent ==
    [][\A c \in Callers :
          (opc[c] = "initialize" /\ initialized /\ opc'[c] # "initialize")
             => /\ result'[c].initialize = "already_initialized"
                /\ opc'[c] = "idle"
                /\ UNCHANGED <<initialized, processor_workers, leaked_workers,
                               monitor_running, monitoring_task,
                               leaked_monitors, is_connected>>
                /\ processor_workers' = Spawned(_worker_count)
                /\ monitoring_task' = "running"
                /\ leaked_monitors' = 0]_vars
C10_Witness ==
    \E c \in Callers :
        /\ result[c].initialize = "already_initialized"
        /\ opc[c] = "idle"
        /\ initialized
        /\ Len(processor_workers) = _worker_count

\* C11: when shutdown() of an initialized orchestrator returns, the monitor
\* loop has ended, no worker task is left (none running, none leaked), the
\* queue store connection is closed and initialized is false; shutdown() of
\* an orchestrator that is not initialized returns not_initialized and
\* changes nothing; a reinitialize() that shut an initialized orchestrator
\* down ends with exactly N running worker tasks.
OrchState == <<initialized, processor_workers, leaked_workers, monitor_running,
               monitoring_task, leaked_monitors, is_connected>>
C11_ShutdownStopsAll ==
    [][\A c \in Callers :
          /\ (opc[c] = "close" /\ opc'[c] # "close")
                => /\ result'[c].shutdown = "shutdown_complete"
                   /\ ~monitor_running'
                   /\ monitoring_task' = "none"
                   /\ processor_workers' = <<>>
                   /\ leaked_workers' = 0
                   /\ ~is_connected'
                   /\ ~initialized'
          /\ (opc[c] = "shutdown" /\ ~initialized /\ opc'[c] # "shutdown")
                => /\ result'[c].shutdown = "not_initialized"
                   /\ OrchState' = OrchState
          /\ (/\ op[c] = "reinitialize"
              /\ result[c].shutdown = "shutdown_complete"
              /\ opc[c] = "check_all_components"
              /\ opc'[c] = "idle")
                => /\ result'[c].initialize = "initialized"
                   /\ initialized'
                   /\ processor_workers' = Spawned(_worker_count)
                   /\ leaked_workers' = 0]_vars
C11_Witness ==
    \E c \in Callers :
        /\ op[c] = "shutdown"
        /\ opc[c] = "idle"
        /\ result[c].shutdown = "shutdown_complete"
        /\ processor_workers = <<>>
        /\ monitoring_task = "none"
        /\ ~is_connected
        /\ ~initialized

\* ------------------------------------------------------------ RetryHandler
\* with_retry(func, max_retries, delay, backoff); each await is a step.  The
\* record rh holds the call's arguments and locals, plus what it did: calls
\* (invocations of func), outcomes (per invocation), slept (the sleeps).
WaitTimeMutant(r) == r.delay * (r.backoff ^ (r.attempt + 1))

\* wait_time = delay * (backoff**attempt)
WaitTime(r) == r.delay * (r.backoff ^ r.attempt)

MoreAttemptsMutant(r) == r.attempt < r.max_retries

\* if attempt < max_retries - 1
MoreAttempts(r) == r.attempt < r.max_retries - 1

\* the loop is left: raise last_exception, or RuntimeError when there is none
RaiseLast(r) ==
    [r EXCEPT !.state = "raised",
              !.exception = IF r.last_exception # "none" THEN r.last_exception
                            ELSE "RuntimeError"]

\* `for attempt in range(max_retries)` takes the value a
ForAttempt(r, a) ==
    IF a < r.max_retries THEN [r EXCEPT !.state = "call", !.attempt = a]
    ELSE RaiseLast(r)

\* the call of with_retry up to its first await
with_retry(max_retries, delay, backoff) ==
    ForAttempt([NoRetry EXCEPT !.max_retries = max_retries, !.delay = delay,
                               !.backoff = backoff], 0)

\* `return await func(*args, **kwargs)` returned value
FuncReturned(r, value) ==
    [r EXCEPT !.state = "returned", !.calls = @ + 1, !.value = value,
              !.outcomes = Append(@, "returned")]

\* func raised e: sleep, or fall to the next iteration at once
FuncRaised(r, e) ==
    LET r1 == [r EXCEPT !.calls = @ + 1, !.last_exception = e,
                        !.outcomes = Append(@, e)]
    IN IF MoreAttempts(r1)
       THEN [r1 EXCEPT !.state = "sleep", !.slept = Append(@, WaitTime(r1))]
       ELSE ForAttempt(r1, r1.attempt + 1)

\* `await asyncio.sleep(wait_time)` is over
SleepOver(r) == ForAttempt(r, r.attempt + 1)

Exceptions == {"ValueError", "TypeError"}
Delays == {1, 2}
Backoffs == {1, 2, 3}

retryRest == <<store, nextId, raises, workerVars, callerVars, orchVars,
               messages, users, configs, hook, agent, dbVars>>

\* some caller awaits with_retry(func, max_retries=n, delay=d, backoff=b)
WithRetryCall(n, d, b) ==
    /\ rh.state \in {"idle", "returned", "raised"}
    /\ rh' = with_retry(n, d, b)
    /\ UNCHANGED retryRest

WithRetryFuncReturns ==
    /\ rh.state = "call"
    /\ rh' = FuncReturned(rh, "value")
    /\ UNCHANGED retryRest

WithRetryFuncRaises(e) ==
    /\ rh.state = "call"
    /\ rh' = FuncRaised(rh, e)
    /\ UNCHANGED retryRest

WithRetrySleepOver ==
    /\ rh.state = "sleep"
    /\ rh' = SleepOver(rh)
    /\ UNCHANGED retryRest

RetryNext ==
    \/ \E n \in 0..MaxRetriesArg : \E d \in Delays : \E b \in Backoffs :
          WithRetryCall(n, d, b)
    \/ WithRetryFuncReturns
    \/ \E e \in Exceptions : WithRetryFuncRaises(e)
    \/ WithRetrySleepOver

RetrySpec == Init /\ [][RetryNext]_vars

\* C17: with_retry invokes func at most max_retries times and stops at the
\* first success, returning its value; the k-th failure (k < max_retries) is
\* followed by a sleep of delay * backoff^(k-1), the last failure by none;
\* when every attempt failed it raises the exception of the last attempt.
Failures(r) == {i \in 1..Len(r.outcomes) : r.outcomes[i] # "returned"}
C17_BoundedRetry ==
    /\ rh.calls = Len(rh.outcomes)
    /\ rh.calls <= rh.max_retries
    /\ \A i \in 1..(Len(rh.outcomes) - 1) : i \in Failures(rh)
    /\ Len(rh.slept) <= rh.max_retries - 1 \/ rh.slept = <<>>
    /\ \A k \in 1..Len(rh.slept) :
          /\ k \in Failures(rh)
          /\ rh.slept[k] = rh.delay * (rh.backoff ^ (k - 1))
    /\ rh.state = "sleep" => Len(rh.slept) = rh.calls
    /\ rh.state = "call" => Len(rh.slept) = rh.calls
    /\ rh.state = "returned" =>
          /\ rh.outcomes[rh.calls] = "returned"
          /\ rh.value = "value"
          /\ Len(rh.slept) = rh.calls - 1
    /\ rh.state = "raised" =>
          /\ rh.calls = rh.max_retries
          /\ Failures(rh) = 1..rh.max_retries
          /\ Len(rh.slept) = (IF rh.max_retries = 0 THEN 0
                              ELSE rh.max_retries - 1)
          /\ rh.exception = (IF rh.max_retries = 0 THEN "RuntimeError"
                             ELSE rh.outcomes[rh.max_retries])
C17_Witness ==
    /\ rh.state = "raised"
    /\ rh.max_retries = 3
    /\ rh.delay = 1
    /\ rh.backoff = 2
    /\ rh.slept = <<1, 2>>
    /\ rh.outcomes = <<"ValueError", "ValueError", "TypeError">>
    /\ rh.exception = "TypeError"

\* ---------------------------------------------------------- LLMConfig rows
\* configs is the llm_config table: rows [user_id, is_active] in id order.
UserIds == {"+1234567890", "+1987654321"}
ConfigsOf(cfgs, user_id) == {i \in 1..Len(cfgs) : cfgs[i].user_id = user_id}
ActiveConfigsOf(cfgs, user_id) ==
    {i \in ConfigsOf(cfgs, user_id) : cfgs[i].is_active}

\* save_user_config, a row exists: existing_config.is_active = config.is_active
SaveExisting(cfgs, i, is_active) == [cfgs EXCEPT ![i].is_active = is_active]

\* LLMConfigService.save_user_config: `.first()` of the user's rows has no
\* ORDER BY, so any of them (row) may be the one updated; none: insert
save_user_config(cfgs, user_id, is_active, row) ==
    IF ConfigsOf(cfgs, user_id) # {}
    THEN SaveExisting(cfgs, row, is_active)
    ELSE Append(cfgs, [user_id |-> user_id, is_active |-> is_active])

\* admin create_user_llm_config: deactivate the user's rows, insert a new one
create_user_llm_config(cfgs, user_id, is_active) ==
    Append([j \in 1..Len(cfgs) |->
               IF cfgs[j].user_id = user_id
               THEN [cfgs[j] EXCEPT !.is_active = FALSE] ELSE cfgs[j]],
           [user_id |-> user_id, is_active |-> is_active])

\* admin update_user_llm_config on the active row it found
update_user_llm_config(cfgs, row, provided, is_active) ==
    IF provided THEN [cfgs EXCEPT ![row].is_active = is_active] ELSE cfgs

configRest == <<store, nextId, raises, workerVars, callerVars, orchVars,
                messages, users, hook, rh, agent, dbVars>>

\* POST /llm-config of the public API: save for an existing user
SaveUserConfig(user_id, is_active) ==
    /\ user_id \in users
    /\ \E row \in IF ConfigsOf(configs, user_id) = {} THEN {0}
                  ELSE ConfigsOf(configs, user_id) :
          configs' = save_user_config(configs, user_id, is_active, row)
    /\ Len(configs') <= MaxConfigs
    /\ UNCHANGED configRest

\* POST /admin/llm-config/{user_id}; the commit either succeeds or raises
\* (nothing is then written)
CreateUserLlmConfig(user_id, is_active, committed) ==
    /\ Len(configs) < MaxConfigs
    /\ configs' = IF user_id \in users /\ committed
                  THEN create_user_llm_config(configs, user_id, is_active)
                  ELSE configs
    /\ UNCHANGED configRest

\* PUT /admin/llm-config/{user_id}: 404 when the user has no active row
UpdateUserLlmConfig(user_id, provided, is_active) ==
    /\ IF ActiveConfigsOf(configs, user_id) = {}
       THEN configs' = configs
       ELSE \E row \in ActiveConfigsOf(configs, user_id) :
               configs' = update_user_llm_config(configs, row, provided,
                                                 is_active)
    /\ UNCHANGED configRest

\* ------------------------------------------------------------ AgentService
\* A stored Message row
Message(user_id, direction, content, whatsapp_message_id) ==
    [user_id |-> user_id, direction |-> direction, content |-> content,
     whatsapp_message_id |-> whatsapp_message_id]

Apology == "I apologize, but I encountered an error processing your request."

\* the steps of process_message at which an exception can be raised
Faults == {"store_incoming", "load_config", "context", "decrypt",
           "create_agent", "adapter", "store_outgoing"}

\* _create_error_response
ErrorResponse(error_message) ==
    [success |-> FALSE, content |-> Apology, error_message |-> error_message]

ExceptMutant(fault) == fault # "store_outgoing"

\* `except Exception as e` around the whole body
Except(fault) == TRUE

NoConfigMutant(cfgs, user_id) == FALSE

\* `if not llm_config` after _get_user_llm_config
NoConfig(cfgs, user_id) == ActiveConfigsOf(cfgs, user_id) = {}

\* process_message(user_id, message_content) with a failure injected at the
\* step fault ("none": no failure); msgs is the messages table.  The result
\* holds the table afterwards, the response (or raised), and whether the
\* adapter was built and run.
process_message(msgs, usrs, cfgs, user_id, message_content, fault) ==
    LET out(m, response, raised, built, run) ==
            [messages |-> m, response |-> response, raised |-> raised,
             adapter_built |-> built, adapter_run |-> run]
        failed(m, step, built, run) ==
            IF Except(step)
            THEN out(m, ErrorResponse(<<"Failed to process message: ", step>>),
                     FALSE, built, run)
            ELSE out(m, ErrorResponse(<<>>), TRUE, built, run)
        m1 == Append(msgs, Message(user_id, "incoming", message_content, "none"))
        m2 == Append(m1, Message(user_id, "outgoing", "reply", "none"))
    IN IF fault = "store_incoming" \/ user_id \notin usrs
       THEN failed(msgs, "store_incoming", FALSE, FALSE)
       ELSE IF fault = "load_config" THEN failed(m1, fault, FALSE, FALSE)
       ELSE IF NoConfig(cfgs, user_id)
       THEN out(m1, ErrorResponse(<<"LLM configuration not found">>),
                FALSE, FALSE, FALSE)
       ELSE IF fault \in {"context", "decrypt", "create_agent"}
       THEN failed(m1, fault, FALSE, FALSE)
       ELSE IF fault = "adapter" THEN failed(m1, fault, TRUE, TRUE)
       ELSE IF fault = "store_outgoing" THEN failed(m1, fault, TRUE, TRUE)
       ELSE out(m2, [success |-> TRUE, content |-> "reply",
                     error_message |-> <<>>], FALSE, TRUE, TRUE)

agentRest == <<store, nextId, raises, workerVars, callerVars, orchVars,
               configs, hook, rh, dbVars>>

\* a User row is created on first contact
CreateUser(phone) ==
    /\ phone \notin users
    /\ users' = users \cup {phone}
    /\ UNCHANGED <<messages, agent, agentRest>>

\* a caller awaits AgentService(db).process_message(user_id, content)
ProcessMessage(user_id, message_content, fault) ==
    /\ agent.called < MaxAgentCalls
    /\ LET r == process_message(messages, users, configs, user_id,
                                message_content, fault)
       IN /\ messages' = r.messages
          /\ agent' = [called |-> agent.called + 1, user_id |-> user_id,
                       fault |-> fault, success |-> r.response.success,
                       content |-> r.response.content,
                       error_message |-> r.response.error_message,
                       raised |-> r.raised,
                       adapter_built |-> r.adapter_built,
                       adapter_run |-> r.adapter_run]
    /\ UNCHANGED <<users, agentRest>>

AgentNext ==
    \/ \E u \in UserIds : CreateUser(u)
    \/ \E u \in UserIds : \E a \in BOOLEAN : SaveUserConfig(u, a)
    \/ \E u \in UserIds : \E a, c \in BOOLEAN : CreateUserLlmConfig(u, a, c)
    \/ \E u \in UserIds : \E p, a \in BOOLEAN : UpdateUserLlmConfig(u, p, a)
    \/ \E u \in UserIds : \E f \in Faults \cup {"none"} :
          ProcessMessage(u, "Hello", f)

AgentSpec == Init /\ [][AgentNext]_vars

\* a step in which process_message was called for user_id
AgentCalled(user_id) ==
    /\ agent'.called = agent.called + 1
    /\ agent'.user_id = user_id
Outgoing(msgs) == {i \in 1..Len(msgs) : msgs[i].direction = "outgoing"}

\* C18: when the user has no active LLMConfig (and neither the storing of
\* the inbound message nor the config query failed), process_message stores
\* the inbound message, returns success = false with error_message
\* "LLM configuration not found", and neither builds nor runs the adapter nor
\* stores an outgoing message.
C18_NoConfigNoAdapter ==
    [][\A u \in UserIds :
          (/\ AgentCalled(u)
           /\ u \in users
           /\ ActiveConfigsOf(configs, u) = {}
           /\ agent'.fault \notin {"store_incoming", "load_config"})
             => /\ ~agent'.raised
                /\ ~agent'.success
                /\ agent'.error_message = <<"LLM configuration not found">>
                /\ ~agent'.adapter_built
                /\ ~agent'.adapter_run
                /\ messages' = Append(messages,
                                      Message(u, "incoming", "Hello", "none"))]_vars
C18_Witness ==
    /\ agent.called > 0
    /\ agent.error_message = <<"LLM configuration not found">>
    /\ ActiveConfigsOf(configs, agent.user_id) = {}
    /\ messages # <<>>
    /\ Outgoing(messages) = {}

\* C19: process_message never raises: whichever step fails (or the user or
\* the configuration is missing) it returns success = false with the apology
\* as content and an error_message; an outgoing message is stored only by a
\* call whose adapter run returned.
C19_NeverRaises ==
    [][\A u \in UserIds :
          AgentCalled(u)
             => /\ ~agent'.raised
                /\ (\/ agent'.fault # "none"
                    \/ u \notin users
                    \/ ActiveConfigsOf(configs, u) = {})
                      => /\ ~agent'.success
                         /\ agent'.content = Apology
                         /\ agent'.error_message # <<>>
                /\ agent'.success => agent'.content = "reply"
                /\ Outgoing(messages') # Outgoing(messages)
                      => /\ agent'.adapter_run
                         /\ agent'.fault \notin {"adapter", "create_agent",
                                                 "decrypt", "context",
                                                 "load_config",
                                                 "store_incoming"}
                /\ agent'.fault = "store_outgoing"
                      => Outgoing(messages') = Outgoing(messages)]_vars
C19_Witness ==
    /\ agent.called > 0
    /\ agent.fault = "adapter"
    /\ agent.adapter_run
    /\ ~agent.success
    /\ agent.content = Apology
    /\ ~agent.raised
    /\ ActiveConfigsOf(configs, agent.user_id) # {}

\* C15: whatever sequence of save_user_config, admin create and admin update
\* ran, a user has at most one LLMConfig with is_active = true, and right
\* after a save_user_config for a user exactly one.
AtMostOneActive ==
    \A u \in UserIds : Cardinality(ActiveConfigsOf(configs, u)) <= 1
C15_SingleActive ==
    /\ []AtMostOneActive
    /\ [][\A u \in UserIds : \A a \in BOOLEAN :
             SaveUserConfig(u, a)
                => Cardinality(ActiveConfigsOf(configs', u)) = 1]_vars

\* ------------------------------------------------------- webhook endpoint
WHATSAPP_SYSTEM_NUMBER == "+5550000001"
Body == "body"

\* the X-Webhook-Signature header: missing, empty, a hex digest made by the
\* sender with some key over some body, or text with a non-ASCII character
HexHmac(key, body) == [kind |-> "hex", key |-> key, body |-> body]
Signatures ==
    {NoSignature, [kind |-> "empty", key |-> "none", body |-> "none"],
     [kind |-> "nonascii", key |-> "none", body |-> "none"]}
        \cup {HexHmac(k, b) : k \in {"s3cret", "other"}, b \in {Body, "tampered"}}

SecretConfiguredMutant(secret) == FALSE

\* hasattr(settings, 'WEBHOOK_SECRET') and settings.WEBHOOK_SECRET
SecretConfigured(secret) == secret \notin {"none", ""}

\* WebhookValidator.validate_signature; hmac.compare_digest raises TypeError
\* on a str with a non-ASCII character
validate_signature(webhook_secret, payload, signature) ==
    IF webhook_secret \in {"none", ""} THEN "valid"
    ELSE IF signature.kind \in {"missing", "empty"} THEN "invalid"
    ELSE IF signature.kind = "nonascii" THEN "TypeError"
    ELSE IF HexHmac(webhook_secret, payload) = signature THEN "valid"
    ELSE "invalid"

\* str.replace("@s.whatsapp.net", "") on the numbers the events carry
StripJid(jid) ==
    CASE jid = "+5550000001@s.whatsapp.net" -> "+5550000001"
      [] jid = "+1234567890@s.whatsapp.net" -> "+1234567890"
      [] jid = "+1987654321@s.whatsapp.net" -> "+1987654321"
      [] OTHER -> jid

\* the message.received events: text only, text with media, media only, and
\* an empty text; fault names the step of the handler that raises
Events ==
    {e \in [from_number : {"+1234567890@s.whatsapp.net",
                           "+1987654321@s.whatsapp.net"},
            to_number : {"+5550000001@s.whatsapp.net", "+5550000001@c.us",
                         "+1987654321@s.whatsapp.net"},
            text : {"none", "", "Hello, can you help me?"},
            media_url : {"none", "url"},
            fault : {"none", "parse", "store_message"}] :
        /\ e.text = "none" => e.media_url = "url"
        /\ e.text = "" => e.media_url = "none"}

IsSystemMessage(event) == StripJid(event.to_number) = WHATSAPP_SYSTEM_NUMBER

DispatchMutant(event) == IsSystemMessage(event)

\* if is_system_message and data.text
Dispatch(event) == IsSystemMessage(event) /\ event.text \notin {"none", ""}

\* _handle_message_received up to the agent dispatch: the user is found or
\* created and the message stored; a raised exception gives status error
handle_message_received(msgs, usrs, event) ==
    LET user_phone == IF IsSystemMessage(event)
                      THEN StripJid(event.from_number)
                      ELSE StripJid(event.to_number)
        direction == IF IsSystemMessage(event) THEN "incoming"
                     ELSE IF StripJid(event.from_number) = user_phone
                     THEN "outgoing" ELSE "incoming"
        content == IF event.text = "none" THEN "" ELSE event.text
    IN IF event.fault = "parse"
       THEN [messages |-> msgs, users |-> usrs, status |-> "error",
             message_id |-> 0, dispatch |-> FALSE]
       ELSE IF event.fault = "store_message"
       THEN [messages |-> msgs, users |-> usrs \cup {user_phone},
             status |-> "error", message_id |-> 0, dispatch |-> FALSE]
       ELSE [messages |-> Append(msgs, Message(user_phone, direction, content,
                                               "msg_123")),
             users |-> usrs \cup {user_phone},
             status |-> IF Dispatch(event) THEN "none" ELSE "stored",
             message_id |-> Len(msgs) + 1,
             dispatch |-> Dispatch(event)]

\* the keyword arguments the handler passes through with_retry, and the
\* parameters process_message declares: a call with a keyword the function
\* does not declare raises TypeError
HandlerKeywords == {"user_id", "message_content", "message_id"}
AgentParameters == {"user_id", "message_content"}
Binds(parameters, keywords) == keywords \subseteq parameters

hookRest == <<store, nextId, raises, workerVars, callerVars, orchVars,
              configs, agent, dbVars>>

\* POST /webhooks/whatsapp arrives: the endpoint checks the signature when a
\* secret is configured; 401 for a signature that does not validate, and the
\* TypeError of compare_digest leaves the endpoint as a 500
WebhookRequest(secret, signature) ==
    /\ hook.pc \in {"idle", "done"}
    /\ hook.served < MaxEvents
    /\ LET verdict == IF SecretConfigured(secret)
                      THEN validate_signature(secret, Body, signature)
                      ELSE "valid"
           request == [NoRequest EXCEPT !.served = hook.served + 1,
                                        !.first = Len(messages),
                                        !.WEBHOOK_SECRET = secret,
                                        !.signature = signature]
       IN hook' = IF verdict = "valid" THEN [request EXCEPT !.pc = "handle"]
                  ELSE [request EXCEPT !.pc = "done",
                               !.http = IF verdict = "invalid" THEN 401 ELSE 500]
    /\ rh' = NoRetry
    /\ UNCHANGED <<messages, users, hookRest>>

\* handle_webhook for the message.received event the request carries, by a
\* handler built around agent_service (AgentService in get_webhook_handler,
\* AsyncMock in the tests), up to the first await inside with_retry
HandleWebhook(event, agent_service) ==
    /\ hook.pc = "handle"
    /\ LET request == [hook EXCEPT !.event = event,
                                   !.agent_service = agent_service,
                                   !.WEBHOOK_SECRET = "none",
                                   !.signature = NoSignature]
           r == handle_message_received(messages, users, event)
       IN /\ messages' = r.messages
          /\ users' = r.users
          /\ IF r.dispatch
             THEN /\ hook' = [request EXCEPT !.pc = "agent",
                                             !.message_id = r.message_id]
                  /\ rh' = with_retry(handler_max_retries, handler_delay,
                                      handler_backoff)
             ELSE /\ hook' = [request EXCEPT !.pc = "done", !.http = 200,
                                             !.status = r.status,
                                             !.message_id = r.message_id]
                  /\ UNCHANGED rh
    /\ UNCHANGED hookRest

\* the awaited agent_service.process_message(**kwargs) returned: with_retry
\* returns and the handler answers processed
HookFuncReturns ==
    /\ hook.pc = "agent"
    /\ rh.state = "call"
    /\ IF hook.agent_service = "AgentService"
       THEN /\ Binds(AgentParameters, HandlerKeywords)
            /\ \E fault \in Faults \cup {"none"} :
                  messages' = process_message(messages, users, configs,
                                  StripJid(hook.event.from_number),
                                  hook.event.text, fault).messages
       ELSE UNCHANGED messages
    /\ rh' = FuncReturned(rh, "value")
    /\ hook' = [hook EXCEPT !.pc = "done", !.http = 200, !.status = "processed"]
    /\ UNCHANGED <<users, hookRest>>

AfterRetriesFailedMutant(h) ==
    [h EXCEPT !.pc = "done", !.http = 500, !.status = "error"]

\* except Exception: return {"status": "stored", ..., "processing": "failed"}
AfterRetriesFailed(h) ==
    [h EXCEPT !.pc = "done", !.http = 200, !.status = "stored",
              !.processing = "failed"]

\* the call raised e; after the last attempt with_retry raises and the
\* handler answers stored / processing failed
HookFuncRaises(e) ==
    /\ hook.pc = "agent"
    /\ rh.state = "call"
    /\ IF hook.agent_service = "AgentService"
       THEN ~Binds(AgentParameters, HandlerKeywords) /\ e = "TypeError"
       ELSE TRUE
    /\ rh' = FuncRaised(rh, e)
    /\ hook' = IF rh'.state = "raised" THEN AfterRetriesFailed(hook) ELSE hook
    /\ UNCHANGED <<messages, users, hookRest>>

HookSleepOver ==
    /\ hook.pc = "agent"
    /\ rh.state = "sleep"
    /\ rh' = SleepOver(rh)
    /\ UNCHANGED <<messages, users, hook, hookRest>>

\* between two webhook requests a user saves an active configuration
HookSaveConfig(user_id) ==
    /\ hook.pc \in {"idle", "done"}
    /\ SaveUserConfig(user_id, TRUE)

HookNext ==
    \/ \E secret \in {"none", "", "s3cret"} : \E signature \in Signatures :
          WebhookRequest(secret, signature)
    \/ \E event \in Events : \E agent_service \in {"AgentService", "AsyncMock"} :
          HandleWebhook(event, agent_service)
    \/ HookFuncReturns
    \/ \E e \in Exceptions : HookFuncRaises(e)
    \/ HookSleepOver
    \/ \E u \in UserIds : HookSaveConfig(u)

HookSpec == Init /\ [][HookNext]_vars

\* the handler ran on the request's event in this step
Handled == hook.pc = "handle" /\ hook'.pc # "handle"
ToSystemWithText(event) ==
    /\ event.to_number \in {"+5550000001@s.whatsapp.net", "+5550000001"}
    /\ event.text = "Hello, can you help me?"
NewRows == {i \in 1..Len(messages) : i > hook.first}

\* C12: the handler persists the message of every message.received event it
\* handles without an exception, and calls the agent service if and only if
\* the recipient number, suffix stripped, is the system number and the text
\* is non-empty; otherwise the answer is `stored` and the agent is not called.
C12_DispatchIffSystemText ==
    /\ [][Handled /\ hook'.event.fault = "none" =>
            /\ Len(messages') = Len(messages) + 1
            /\ hook'.message_id = Len(messages')
            /\ messages'[Len(messages')].content =
                  (IF hook'.event.text = "none" THEN "" ELSE hook'.event.text)
            /\ messages'[Len(messages')].whatsapp_message_id = "msg_123"
            /\ (hook'.pc = "agent" /\ rh'.state = "call")
                  <=> ToSystemWithText(hook'.event)
            /\ ~ToSystemWithText(hook'.event) =>
                  /\ hook'.pc = "done"
                  /\ hook'.http = 200
                  /\ hook'.status = "stored"
                  /\ hook'.processing = "none"
                  /\ rh' = NoRetry]_vars
    /\ [](rh.calls > 0 => ToSystemWithText(hook.event))
    /\ []((hook.pc = "done" /\ ToSystemWithText(hook.event)
              /\ hook.event.fault = "none") => rh.calls > 0)
C12_Witness ==
    /\ hook.pc = "done"
    /\ hook.event.to_number = "+5550000001@s.whatsapp.net"
    /\ hook.event.text = "none"
    /\ hook.event.media_url = "url"
    /\ hook.status = "stored"
    /\ rh.calls = 0
    /\ NewRows # {}

\* C13: the S1 turn (text to the system number from a user with an active
\* LLM configuration) served with the real AgentService stores exactly one
\* incoming Message with the event's text, stores the reply as an outgoing
\* Message, and ends with status processed.
S1 == [from_number |-> "+1234567890@s.whatsapp.net",
       to_number |-> "+5550000001@s.whatsapp.net",
       text |-> "Hello, can you help me?", media_url |-> "none",
       fault |-> "none"]
C13_S1Processed ==
    [][(/\ hook.pc \in {"handle", "agent"}
        /\ hook'.pc = "done"
        /\ hook'.event = S1
        /\ hook'.agent_service = "AgentService"
        /\ ActiveConfigsOf(configs, "+1234567890") # {})
          => /\ hook'.status = "processed"
             /\ Cardinality({i \in 1..Len(messages') :
                               /\ i > hook'.first
                               /\ messages'[i].direction = "incoming"
                               /\ messages'[i].content = S1.text}) = 1
             /\ \E i \in 1..Len(messages') :
                   /\ i > hook'.first
                   /\ messages'[i].direction = "outgoing"]_vars

\* C14: once the signature check is passed the answer is HTTP 200 with a
\* status body: an exception inside the handler gives status error; when the
\* agent call failed at each of the three attempts the inbound message is
\* still stored and the answer is stored / processing failed.
C14_NeverRejected ==
    /\ [][(hook.pc \in {"handle", "agent"} /\ hook'.pc = "done") =>
            /\ hook'.http = 200
            /\ hook'.status \in {"processed", "stored", "error"}
            /\ hook'.status = "error" <=> hook'.event.fault # "none"]_vars
    /\ [][(hook.pc = "agent" /\ rh'.state = "raised") =>
            /\ hook'.pc = "done"
            /\ hook'.http = 200
            /\ hook'.status = "stored"
            /\ hook'.processing = "failed"
            /\ rh'.calls = handler_max_retries
            /\ messages' = messages]_vars
    /\ []((hook.pc \in {"agent", "done"} /\ hook.message_id > 0) =>
            /\ hook.message_id \in NewRows
            /\ messages[hook.message_id].whatsapp_message_id = "msg_123"
            /\ messages[hook.message_id].content =
                  (IF hook.event.text = "none" THEN "" ELSE hook.event.text))
C14_Witness ==
    /\ hook.pc = "done"
    /\ hook.http = 200
    /\ hook.status = "stored"
    /\ hook.processing = "failed"
    /\ rh.state = "raised"
    /\ rh.slept = <<1, 2>>
    /\ hook.message_id \in NewRows

\* C16: with a secret configured the handler runs only for a request whose
\* signature header is the hex HMAC-SHA-256 of the body under the secret; any
\* other header (missing, wrong, made over another body) is answered 401
\* with nothing stored or dispatched; without a secret every request is
\* handled.
Arrived == hook'.served = hook.served + 1
C16_SignatureGate ==
    /\ [](hook.pc = "handle" =>
            \/ hook.WEBHOOK_SECRET \in {"none", ""}
            \/ hook.signature = HexHmac(hook.WEBHOOK_SECRET, Body))
    /\ [][messages' # messages \/ users' # users \/ rh'.calls > rh.calls
             => hook.pc \in {"handle", "agent"}]_vars
    /\ [][Arrived =>
            IF hook'.WEBHOOK_SECRET \in {"none", ""}
            THEN hook'.pc = "handle"
            ELSE IF hook'.signature = HexHmac(hook'.WEBHOOK_SECRET, Body)
            THEN hook'.pc = "handle"
            ELSE /\ hook'.pc = "done"
                 /\ hook'.http = 401
                 /\ UNCHANGED <<messages, users>>]_vars

\* ------------------------------------- the worker with the real AgentService
AfterTurnMutant(r) ==
    IF r.raised \/ ~r.response.success THEN "retry_lrange"
    ELSE "acknowledge_lrange"

\* _process_message: acknowledge after process_message returned, whatever
\* the response says; retry in the except branch
AfterTurn(r) == IF r.raised THEN "retry_lrange" ELSE "acknowledge_lrange"

\* the worker awaits agent_service.process_message(user_id=
\* queued_message.user_id, message_content=queued_message.content); user_id
\* is the record's field, which the queue itself never reads
AgentTurn(w, user_id, fault) ==
    /\ pc[w] = "agent"
    /\ agent.called < MaxAgentCalls
    /\ LET r == process_message(messages, users, configs, user_id, "Hello",
                                fault)
           next == AfterTurn(r)
       IN /\ messages' = r.messages
          /\ agent' = [called |-> agent.called + 1, user_id |-> user_id,
                       fault |-> fault, success |-> r.response.success,
                       content |-> r.response.content,
                       error_message |-> r.response.error_message,
                       raised |-> r.raised,
                       adapter_built |-> r.adapter_built,
                       adapter_run |-> r.adapter_run]
          /\ outcomes' = [outcomes EXCEPT ![msg[w].id] =
                Append(@, IF r.raised THEN "raise"
                          ELSE IF r.response.success THEN "ok" ELSE "error")]
          /\ msg' = IF next = "retry_lrange"
                    THEN [msg EXCEPT ![w] = RetryMark(@)] ELSE msg
          /\ pc' = [pc EXCEPT ![w] = next]
    /\ pending' = pending \ {msg[w].id}
    /\ UNCHANGED <<store, nextId, raises, idx, msgData, ret, sleeps, deqCount,
                   acked, callerVars, orchVars, users, configs, hook, rh,
                   dbVars>>

\* one step of a worker; AgentRaises is the except branch taken when
\* SessionLocal() or the AgentService constructor raised
TurnStep(w) ==
    \/ DequeueRpoplpush(w)
    \/ DequeueLrem(w)
    \/ DequeueLpush(w)
    \/ IdleSleep(w)
    \/ \E f \in {"none", "decrypt", "adapter"} : AgentTurn(w, "+1234567890", f)
    \/ AgentRaises(w)
    \/ AcknowledgeLrange(w)
    \/ AcknowledgeLrem(w)
    \/ RetryLrange(w)
    \/ RetryLrem(w)
    \/ RetryFailedLpush(w)
    \/ RetrySleep(w)
    \/ RetryLpush(w)

TurnNext ==
    \/ \E p \in MessagePriority : Enqueue(p)
    \/ \E w \in Workers : TurnStep(w)
    \/ CreateUser("+1234567890")
    \/ SaveUserConfig("+1234567890", TRUE)

TurnSpec == Init /\ [][TurnNext]_vars

\* worker w got a success = false response in this step
ErrorTurn(w) ==
    /\ pc[w] = "agent"
    /\ pc'[w] # "agent"
    /\ agent'.called = agent.called + 1
    /\ ~agent'.raised
    /\ ~agent'.success
Acknowledging(id) ==
    \E w \in Workers : /\ msg[w].id = id
                       /\ pc[w] \in {"acknowledge_lrange", "acknowledge_lrem"}

\* C20: a record whose agent turn returned a success = false response (the
\* apology for a failing adapter or an undecryptable key, or the missing
\* configuration) is acknowledged: its retry_count stays as it was, it is
\* removed from `processing`, and it never goes back to a lane or to
\* `failed`, so the agent is not invoked for it again.
C20_ErrorResponseAcknowledged ==
    /\ [][\A w \in Workers : ErrorTurn(w) =>
            /\ pc'[w] = "acknowledge_lrange"
            /\ msg'[w] = msg[w]
            /\ store' = store
            /\ sleeps' = sleeps]_vars
    /\ [](\A id \in MsgIds :
            (\E i \in 1..Len(outcomes[id]) : outcomes[id][i] = "error") =>
                /\ outcomes[id][Len(outcomes[id])] = "error"
                /\ id \notin pending
                /\ ~OnAnyLane(id)
                /\ ~InList(_get_failed_key, id)
                /\ IF Acknowledging(id)
                   THEN \A i \in 1..Len(store[_get_processing_key]) :
                          store[_get_processing_key][i].id = id =>
                            store[_get_processing_key][i].retry_count
                               = Raises(id)
                   ELSE /\ id \in acked
                        /\ ~InList(_get_processing_key, id))
C20_Witness ==
    /\ 1 \in acked
    /\ outcomes[1] = <<"raise", "error">>
    /\ agent.error_message = <<"Failed to process message: ", "decrypt">>
    /\ \A k \in Keys : ~InList(k, 1)

\* ------------------------------- the whole queue API called by one caller
RECURSIVE PushRequeuedMutant(_, _)
PushRequeuedMutant(list, msgs) ==
    IF msgs = <<>> THEN list
    ELSE PushRequeuedMutant(
             LPush(list, [Head(msgs) EXCEPT !.error = "none"]), Tail(msgs))

\* the loop of requeue_failed over the messages it read: retry_count = 0,
\* error = None, then one lpush onto the normal lane for each
RECURSIVE PushRequeued(_, _)
PushRequeued(list, msgs) ==
    IF msgs = <<>> THEN list
    ELSE PushRequeued(
             LPush(list, [Head(msgs) EXCEPT !.retry_count = 0,
                                            !.error = "none"]), Tail(msgs))

requeue_failedMutant(st) ==
    LET msgs == st[_get_failed_key]
    IN [store |-> [st EXCEPT ![_get_queue_key(NORMAL)] = PushRequeued(@, msgs)],
        result |-> Len(msgs)]

requeue_failed(st) ==
    LET msgs == st[_get_failed_key]
    IN [store |-> [st EXCEPT ![_get_queue_key(NORMAL)] = PushRequeued(@, msgs),
                             ![_get_failed_key] = <<>>],
        result |-> Len(msgs)]

clear_failed(st) ==
    [store |-> [st EXCEPT ![_get_failed_key] = <<>>],
     result |-> Len(st[_get_failed_key])]

\* the caller acknowledges any id, whether or not it holds the message
ApiAcknowledge(id) ==
    /\ LET r == acknowledge(store, id)
       IN /\ store' = r.store
          /\ lastRet' = [id |-> id, result |-> r.result]
          /\ acked' = IF r.result THEN acked \cup {id} ELSE acked
    /\ held' = SelectSeq(held, LAMBDA h : h.message.id # id)
    /\ lastCall' = "acknowledge"
    /\ UNCHANGED <<nextId, raises, pc, locals, outcomes, sleeps, deqCount,
                   pending, pushed, admin, orchVars, appVars>>

\* the caller hands a message it holds to retry
ApiRetry(i) ==
    /\ raises < ApiMaxRaises
    /\ raises' = raises + 1
    /\ LET r == retry(store, held[i].message)
       IN /\ store' = r.store
          /\ lastRet' = [id |-> r.message.id, result |-> r.result,
                         delay |-> r.delay]
    /\ held' = RemoveAt(held, i)
    /\ lastCall' = "retry"
    /\ UNCHANGED <<nextId, workerVars, pushed, admin, orchVars, appVars>>

ApiRequeueFailed ==
    /\ LET r == requeue_failed(store)
       IN /\ store' = r.store
          /\ lastRet' = [id |-> 0, result |-> r.result]
    /\ lastCall' = "requeue_failed"
    /\ UNCHANGED <<nextId, raises, workerVars, held, pushed, admin, orchVars,
                   appVars>>

ApiClearFailed ==
    /\ LET r == clear_failed(store)
       IN /\ store' = r.store
          /\ lastRet' = [id |-> 0, result |-> r.result]
    /\ admin' = [admin EXCEPT !.cleared = @ \cup IdsOn(store[_get_failed_key])]
    /\ lastCall' = "clear_failed"
    /\ UNCHANGED <<nextId, raises, workerVars, held, pushed, orchVars, appVars>>

ApiNext ==
    \/ \E p \in MessagePriority : CallEnqueue(p)
    \/ CallDequeue
    \/ \E id \in MsgIds : ApiAcknowledge(id)
    \/ \E i \in 1..Len(held) : ApiRetry(i)
    \/ ApiRequeueFailed
    \/ ApiClearFailed

ApiSpec == Init /\ [][ApiNext]_vars

\* C23: requeue_failed moves every record of `failed` to the left end of the
\* normal lane, one push per record in the order read, with retry_count 0
\* and no error, empties `failed`, returns the number moved and leaves high,
\* low and `processing` alone; clear_failed empties `failed`, returns the
\* length it had and changes no other list.
C23_RequeueAndClear ==
    [][LET failed == store[_get_failed_key]
           n == Len(failed)
           normal == store[_get_queue_key(NORMAL)]
       IN /\ lastCall' = "requeue_failed" =>
               /\ lastRet'.result = n
               /\ store'[_get_failed_key] = <<>>
               /\ \A k \in {HIGH, LOW, _get_processing_key} :
                     store'[k] = store[k]
               /\ Len(store'[_get_queue_key(NORMAL)]) = Len(normal) + n
               /\ \A i \in 1..n :
                     store'[_get_queue_key(NORMAL)][n + 1 - i] =
                        [failed[i] EXCEPT !.retry_count = 0, !.error = "none"]
               /\ \A i \in 1..Len(normal) :
                     store'[_get_queue_key(NORMAL)][n + i] = normal[i]
          /\ lastCall' = "clear_failed" =>
               /\ lastRet'.result = n
               /\ store' = [store EXCEPT ![_get_failed_key] = <<>>]]_vars
C23_Witness ==
    /\ lastCall = "requeue_failed"
    /\ lastRet.result = 2
    /\ store[_get_failed_key] = <<>>
    /\ Len(store[_get_queue_key(NORMAL)]) = 3
    /\ store[_get_queue_key(NORMAL)][1].priority = HIGH
    /\ store[_get_queue_key(NORMAL)][1].retry_count = 0

\* C24: acknowledge(id) removes from `processing` exactly one record, whose
\* id is the argument, and returns true; with no such record it returns
\* false and no list changes; an id already acknowledged gets false.
C24_AcknowledgeOnce ==
    [][lastCall' = "acknowledge" =>
          LET id == lastRet'.id
              processing == store[_get_processing_key]
              hits == {i \in 1..Len(processing) : processing[i].id = id}
          IN /\ lastRet'.result = (hits # {})
             /\ IF hits # {}
                THEN /\ \E i \in hits :
                          store'[_get_processing_key] = RemoveAt(processing, i)
                     /\ \A k \in Keys \ {_get_processing_key} :
                          store'[k] = store[k]
                ELSE store' = store
             /\ id \in acked => ~lastRet'.result]_vars
C24_Witness ==
    /\ lastCall = "acknowledge"
    /\ lastRet.id \in acked
    /\ ~lastRet.result
    /\ store[_get_processing_key] # <<>>

\* C26: between two calls of the queue API made one after another, every
\* record enqueued and neither acknowledged nor cleared is at exactly one
\* position of the five lists.
Occurrences(id) ==
    Cardinality({<<k, i>> \in Keys \X (1..SeqMaxMsgs) :
                    i <= Len(store[k]) /\ store[k][i].id = id})
RequeueStep ==
    /\ CASE admin.pc = "idle" ->
              /\ admin' = [admin EXCEPT
                              !.pc = IF store[_get_failed_key] = <<>>
                                     THEN "delete" ELSE "lpush",
                              !.messages = store[_get_failed_key],
                              !.count = 0]
              /\ UNCHANGED store
         [] admin.pc = "lpush" ->
              /\ store' = [store EXCEPT ![_get_queue_key(NORMAL)] =
                              PushRequeued(@, <<Head(admin.messages)>>)]
              /\ admin' = [admin EXCEPT
                              !.pc = IF Tail(admin.messages) = <<>>
                                     THEN "delete" ELSE "lpush",
                              !.messages = Tail(@),
                              !.count = @ + 1]
         [] admin.pc = "delete" ->
              /\ store' = [store EXCEPT ![_get_failed_key] = <<>>]
              /\ admin' = [admin EXCEPT !.pc = "idle"]
    /\ UNCHANGED <<nextId, raises, workerVars, held, lastCall, lastRet, pushed,
                   orchVars, appVars>>

RaceNext ==
    \/ \E p \in MessagePriority : Enqueue(p)
    \/ \E w \in Workers : WorkerStep(w)
    \/ RequeueStep

RaceSpec == Init /\ [][RaceNext]_vars

\* C28: when requeue_failed deletes `failed`, every record that is in
\* `failed` at that moment (pushed there by a retry before or after the list
\* was read) is on the normal lane or in `failed` afterwards.
C28_RequeueKeepsRecords ==
    [][(admin.pc = "delete" /\ admin'.pc = "idle") =>
          \A id \in IdsOn(store[_get_failed_key]) :
              \/ InList(_get_failed_key, id)'
              \/ InList(_get_queue_key(NORMAL), id)']_vars

\* ------------------------------------------- admin requests that overlap
\* each admin request is its own coroutine on the one orchestrator object:
\* a request may arrive while another is suspended at an await (no more
\* requests are looked at once MaxLeaked tasks have been leaked)
OverlapNext ==
    \/ \E c \in Callers :
          \E method \in {"initialize", "shutdown", "reinitialize"} :
              /\ leaked_workers < MaxLeaked
              /\ leaked_monitors < MaxLeaked
              /\ Request(c, method)
    \/ \E c \in Callers : OrchStep(c)
    \/ TaskStep

OverlapSpec == Init /\ [][OverlapNext]_vars

\* worker tasks that have not ended, referenced by the list or not
LiveWorkers ==
    Count(processor_workers, "running") + Count(processor_workers, "cancelling")
        + leaked_workers

\* C27: at most _worker_count worker tasks are alive in every state, also
\* when initialize / reinitialize requests overlap.
C27_WorkersBounded == LiveWorkers <= _worker_count

\* C30: with the workers scheduled fairly and never cancelled, and without
\* requeue_failed, every enqueued record is eventually acknowledged or in
\* `failed`, and the agent is called for it at most max_retries times.
Invocations(id) == Len(outcomes[id]) + (IF id \in pending THEN 1 ELSE 0)
ComponentStatusMutant(name, v) ==
    [name |-> name, error |-> v.state = "raise",
     healthy |-> /\ v.state = "ok"
                 /\ name = "message_queue" => v.failed < 100]

\* _run_check around _check_database, _check_redis, _check_whatsapp_bridge
\* and _check_message_queue: the ComponentStatus each one returns
ComponentStatus(name, v) ==
    [name |-> name, error |-> v.state = "raise",
     healthy |-> /\ v.state = "ok"
                 /\ name = "message_queue" =>
                       (v.failed < 100 /\ v.total - v.failed < 1000)]

\* a component changes while nobody looks
ComponentChanges(c, v) ==
    /\ health.now[c] # v
    /\ health' = [health EXCEPT !.now[c] = v]
    /\ UNCHANGED <<store, nextId, raises, workerVars, callerVars, orchVars,
                   messages, users, configs, hook, rh, agent, sessions, stored>>

\* check_all_components, called by the monitor loop and by initialize
CheckAllComponents ==
    /\ health' = [health EXCEPT !._last_status =
                     {ComponentStatus(c, health.now[c]) : c \in Components}]
    /\ UNCHANGED <<store, nextId, raises, workerVars, callerVars, orchVars,
                   messages, users, configs, hook, rh, agent, sessions, stored>>

\* get_system_health: checks only when no status is there yet
GetSystemHealth ==
    /\ health.answer.calls < MaxHealthCalls
    /\ LET last == IF health._last_status = {}
                   THEN {ComponentStatus(c, health.now[c]) : c \in Components}
                   ELSE health._last_status
           unhealthy_components == {s \in last : ~s.healthy}
       IN health' = [health EXCEPT
                        !._last_status = last,
                        !.answer = [calls |-> @.calls + 1,
                                    healthy |-> unhealthy_components = {},
                                    components |-> last]]
    /\ UNCHANGED <<store, nextId, raises, workerVars, callerVars, orchVars,
                   messages, users, configs, hook, rh, agent, sessions, stored>>

\* a component is in order, answers with a status other than healthy (the
\* bridge), or makes its check raise; the queue also has its counts (total
\* includes failed)
MonitorNext ==
    LET of(states) == {[state |-> st, failed |-> 0, total |-> 0] : st \in states}
        ComponentStates(c) ==
            CASE c = "whatsapp_bridge" -> of({"ok", "degraded", "raise"})
              [] c = "message_queue" ->
                   of({"raise"}) \cup
                   {[state |-> "ok", failed |-> f, total |-> f + q] :
                       f \in {0, 99, 100}, q \in {0, 999, 1000}}
              [] OTHER -> of({"ok", "raise"})
    IN \/ \E c \in Components : \E v \in ComponentStates(c) :
             ComponentChanges(c, v)
       \/ CheckAllComponents
       \/ GetSystemHealth

MonitorSpec == Init /\ [][MonitorNext]_vars

\* what the claim calls a healthy component, read off the component itself
HealthyNow(c) ==
    LET v == health.now[c]
    IN /\ v.state = "ok"
       /\ c = "message_queue" => (v.failed < 100 /\ v.total - v.failed < 1000)
Answered == health'.answer.calls = health.answer.calls + 1
\* a check's result for each of the four components, a raising check giving
\* only its own component unhealthy with an error
ChecksEachComponent(statuses, now) ==
    /\ {s.name : s \in statuses} = Components
    /\ Cardinality(statuses) = 4
    /\ \A s \in statuses :
          /\ s.error = (now[s.name].state = "raise")
          /\ s.error => ~s.healthy
          /\ s.name # "message_queue" => (s.healthy = (now[s.name].state = "ok"))
          /\ s.name = "message_queue" =>
                (s.healthy = /\ now[s.name].state = "ok"
                             /\ now[s.name].failed < 100
                             /\ now[s.name].total - now[s.name].failed < 1000)

\* C21 as stated: the answer of get_system_health says healthy exactly when
\* the four components are healthy at the time of the call.
C21_HealthyNow ==
    [][Answered => (health'.answer.healthy = \A c \in Components : HealthyNow(c))]_vars

\* C21 amended: the answer says healthy exactly when every component was
\* healthy in the latest check_all_components run (made at the call only if
\* none was made before); each run gives one status for each of the four
\* components, a raising check makes its own component unhealthy with an
\* error, and the queue is healthy iff failed < 100 and total - failed < 1000.
C21_HealthyAtLastCheck ==
    /\ [][Answered =>
            /\ health'.answer.components =
                  (IF health._last_status = {} THEN health'._last_status
                   ELSE health._last_status)
            /\ health._last_status = {} =>
                  ChecksEachComponent(health'._last_status, health.now)
            /\ health'.answer.healthy =
                  (\A s \in health'.answer.components : s.healthy)]_vars
    /\ [][health'._last_status # health._last_status =>
            ChecksEachComponent(health'._last_status, health.now)]_vars
C21_Witness ==
    /\ health.answer.calls > 0
    /\ health.answer.healthy
    /\ health.now["message_queue"].failed = 100
    /\ health.now["redis"].state = "raise"

\* ---------------------------------------------------------- MessageService
\* f"{phone_number}@s.whatsapp.net" for the phone numbers users can have
Jid(phone) ==
    CASE phone = "+1234567890" -> "+1234567890@s.whatsapp.net"
      [] phone = "+1987654321" -> "+1987654321@s.whatsapp.net"
      [] phone = "+5550000001" -> "+5550000001@s.whatsapp.net"
      [] phone = "+5550000001@c.us" -> "+5550000001@c.us@s.whatsapp.net"

_message_to_responseMutant(message, user_phone) ==
    IF message.recipient_jid = Jid(user_phone) THEN "outgoing"
    ELSE IF message.sender_jid = Jid(user_phone) THEN "incoming"
    ELSE "system"

\* the direction _message_to_response puts in the MessageResponse
_message_to_response(message, user_phone) ==
    IF message.sender_jid = Jid(user_phone) THEN "incoming"
    ELSE IF message.recipient_jid = Jid(user_phone) THEN "outgoing"
    ELSE "system"

get_or_create_sessionMutant(rows, user_id) ==
    LET found == {i \in 1..Len(rows) : rows[i].status = "connected"
                                       /\ rows[i].session_type = "main"}
    IN IF found # {}
       THEN {[sessions |-> rows, id |-> i] : i \in found}
       ELSE {[sessions |-> Append(rows, [user_id |-> user_id,
                                         session_type |-> "main",
                                         status |-> "connected"]),
              id |-> Len(rows) + 1]}

\* get_or_create_session: the table afterwards and the id of the session
\* returned; .first() has no ORDER BY, so any matching row can be the one
get_or_create_session(rows, user_id) ==
    LET found == {i \in 1..Len(rows) : /\ rows[i].user_id = user_id
                                       /\ rows[i].status = "connected"
                                       /\ rows[i].session_type = "main"}
    IN IF found # {}
       THEN {[sessions |-> rows, id |-> i] : i \in found}
       ELSE {[sessions |-> Append(rows, [user_id |-> user_id,
                                         session_type |-> "main",
                                         status |-> "connected"]),
              id |-> Len(rows) + 1]}

\* store_message(user_id, message_data) on the tables given: the tables
\* afterwards. The user's id is its phone number. The session is found or
\* created (and committed) before the user is looked up; a missing user
\* raises ValueError and no message is stored. Next to the row are kept, for
\* the properties, the caller (via), message_data.direction and the
\* direction of the MessageResponse returned (read); they are not columns
store_message(sess, rows, usrs, user_id, message_data, via) ==
    {IF user_id \notin usrs
     THEN [sessions |-> session.sessions, stored |-> rows]
     ELSE LET given == /\ message_data.sender_jid # "none"
                       /\ message_data.recipient_jid # "none"
              sender_jid ==
                  IF given THEN message_data.sender_jid
                  ELSE IF message_data.direction = "incoming"
                  THEN Jid(user_id)
                  ELSE IF message_data.direction = "outgoing"
                  THEN "service@s.whatsapp.net" ELSE "system"
              recipient_jid ==
                  IF given THEN message_data.recipient_jid
                  ELSE IF message_data.direction = "incoming"
                  THEN "service@s.whatsapp.net"
                  ELSE IF message_data.direction = "outgoing"
                  THEN Jid(user_id) ELSE "system"
              db_message == [user_id |-> user_id,
                             session_id |-> session.id,
                             sender_jid |-> sender_jid,
                             recipient_jid |-> recipient_jid]
          IN [sessions |-> session.sessions,
              stored |-> Append(rows,
                  [message |-> db_message, via |-> via,
                   direction |-> message_data.direction,
                   read |-> _message_to_response(db_message, user_id)])]
     : session \in get_or_create_session(sess, user_id)}

storeRest == <<store, nextId, raises, workerVars, callerVars, orchVars,
               messages, configs, hook, rh, agent, health>>

\* a caller inside the service (the agent) stores a message of a user
\* without JIDs
StoreMessage(user_id, direction) ==
    /\ Len(stored) < MaxStored
    /\ \E r \in store_message(sessions, stored, users, user_id,
                              [direction |-> direction,
                               sender_jid |-> "none",
                               recipient_jid |-> "none"], "service") :
          /\ sessions' = r.sessions
          /\ stored' = r.stored
    /\ UNCHANGED <<users, storeRest>>

\* _handle_message_received up to store_message: the owning user is found
\* or created, the direction decided, and the message stored with the JIDs
\* the event carries
StoreEvent(event) ==
    LET user_phone == IF IsSystemMessage(event)
                      THEN StripJid(event.from_number)
                      ELSE StripJid(event.to_number)
        direction == IF IsSystemMessage(event) THEN "incoming"
                     ELSE IF StripJid(event.from_number) = user_phone
                     THEN "outgoing" ELSE "incoming"
    IN /\ Len(stored) < MaxStored
       /\ event.fault = "none"
       /\ users' = users \cup {user_phone}
       /\ \E r \in store_message(sessions, stored, users', user_phone,
                                 [direction |-> direction,
                                  sender_jid |-> event.from_number,
                                  recipient_jid |-> event.to_number],
                                 "webhook") :
             /\ sessions' = r.sessions
             /\ stored' = r.stored
       /\ UNCHANGED storeRest

StoreNext ==
    \/ \E phone \in {"+1234567890", "+1987654321"} : CreateUser(phone)
    \/ \E user_id \in {"+1234567890", "+1987654321"},
          direction \in {"incoming", "outgoing", "system"} :
          StoreMessage(user_id, direction)
    \/ \E event \in Events : StoreEvent(event)

StoreSpec == Init /\ [][StoreNext]_vars

\* C22 as stated: the direction read of every stored message is incoming
\* iff its sender_jid is the user's JID, and outgoing iff its recipient_jid
\* is the user's JID
C22_DirectionBothWays ==
    \A i \in 1..Len(stored) :
        LET row == stored[i]
        IN /\ row.read = "incoming"
                <=> row.message.sender_jid = Jid(row.message.user_id)
           /\ row.read = "outgoing"
                <=> row.message.recipient_jid = Jid(row.message.user_id)

\* C22 amended: the direction read of every stored message is incoming iff
\* its sender_jid is the user's JID, outgoing iff its recipient_jid is the
\* user's JID and its sender_jid is not, and system otherwise
C22_DirectionSenderFirst ==
    \A i \in 1..Len(stored) :
        LET row == stored[i]
            user_jid == Jid(row.message.user_id)
        IN /\ row.read = "incoming" <=> row.message.sender_jid = user_jid
           /\ row.read = "outgoing"
                <=> /\ row.message.recipient_jid = user_jid
                    /\ row.message.sender_jid # user_jid
           /\ row.read = "system"
                <=> /\ row.message.recipient_jid # user_jid
                    /\ row.message.sender_jid # user_jid

C22_Witness ==
    /\ \E i \in 1..Len(stored) :
          /\ stored[i].message.sender_jid = Jid(stored[i].message.user_id)
          /\ stored[i].message.recipient_jid = Jid(stored[i].message.user_id)
          /\ stored[i].read = "incoming"
    /\ \E i \in 1..Len(stored) :
          /\ stored[i].message.sender_jid # Jid(stored[i].message.user_id)
          /\ stored[i].read = "outgoing"

\* the connected main sessions of a user
ConnectedMain(user_id) ==
    {i \in 1..Len(sessions) : /\ sessions[i].user_id = user_id
                              /\ sessions[i].status = "connected"
                              /\ sessions[i].session_type = "main"}

\* C25: once store_message was called for a user, the user has exactly one
\* connected main session, every message stored for the user is attached to
\* it, and a store for a user who has one creates no session
C25_OneSessionPerUser ==
    /\ [](\A i \in 1..Len(stored) :
             /\ Cardinality(ConnectedMain(stored[i].message.user_id)) = 1
             /\ stored[i].message.session_id
                  \in ConnectedMain(stored[i].message.user_id))
    /\ [](\A i \in 1..Len(sessions) :
             Cardinality(ConnectedMain(sessions[i].user_id)) = 1)
    /\ [][\A i \in 1..Len(stored') :
             (i > Len(stored)
              /\ ConnectedMain(stored'[i].message.user_id) # {})
                => sessions' = sessions]_vars

C25_Witness ==
    /\ Len(sessions) = 2
    /\ \E i, j \in 1..Len(stored) :
          /\ i < j
          /\ stored[i].message.user_id = stored[j].message.user_id
          /\ stored[i].message.session_id = stored[j].message.session_id
    /\ \E i, j \in 1..Len(stored) :
          stored[i].message.session_id # stored[j].message.session_id

\* C29: the direction the webhook handler decided for a stored message is
\* the direction read back for it
C29_HandlerDirectionIsRead ==
    \A i \in 1..Len(stored) :
        stored[i].via = "webhook" => stored[i].direction = stored[i].read

====
